---- MODULE Spec2Model ----
(***************************************************************************)
(* Nested parquet decoding: the recursive schema dispatcher                *)
(* columns_to_iter_recursive (arrow2 io/parquet/read/deserialize/nested.rs)*)
(* with the leaf wrappers, the dictionary leaf and the lazy sequence it     *)
(* returns, driven by a consumer that pulls one item per chunk.            *)
(***************************************************************************)
EXTENDS Integers, Sequences, FiniteSets, TLC

(* ------------------------------------------------------------------ *)
(* Bounds of the model                                                 *)
(* ------------------------------------------------------------------ *)
MaxNodes == 3      \* nodes of a generated schema tree
MaxRows == 2       \* num_rows of a top-level call, and the largest chunk_size
MaxListLen == 2    \* longest list stored in one row of a page

(* ------------------------------------------------------------------ *)
(* Sequence helpers                                                    *)
(* ------------------------------------------------------------------ *)
Last(s) == s[Len(s)]

Front(s) == SubSeq(s, 1, Len(s) - 1)

Reverse(s) == [i \in 1..Len(s) |-> s[Len(s) + 1 - i]]

RECURSIVE SumSeq(_)
SumSeq(s) == IF s = <<>> THEN 0 ELSE s[1] + SumSeq(Tail(s))

RECURSIVE Concat(_)
Concat(ss) == IF ss = <<>> THEN <<>> ELSE ss[1] \o Concat(Tail(ss))

Min(a, b) == IF a < b THEN a ELSE b

(* ------------------------------------------------------------------ *)
(* Logical schema: Field and DataType                                  *)
(* ------------------------------------------------------------------ *)
\* A DataType is a record: tag, children (inner field of a list or map, the
\* fields of a struct), key and value (tags of a dictionary's key and value
\* type), size (of a FixedSizeList).
DT(tag) == [tag |-> tag, children |-> <<>>, key |-> "", value |-> "", size |-> 0]

StructDT(fields) ==
    [tag |-> "Struct", children |-> fields, key |-> "", value |-> "", size |-> 0]

Field(data_type, is_nullable) == [data_type |-> data_type, is_nullable |-> is_nullable]

ListTags == {"List", "LargeList", "FixedSizeList"}

\* DataType::to_physical_type: the in-memory physical type of a logical type.
to_physical_type(data_type) ==
    CASE data_type.tag \in {"Null", "Boolean", "Int8", "Int16", "UInt8", "UInt16",
                            "UInt32", "UInt64", "Float16", "Float32", "Float64",
                            "Binary", "Utf8", "LargeBinary", "LargeUtf8",
                            "FixedSizeBinary", "List", "LargeList", "FixedSizeList",
                            "Struct", "Union", "Map", "Dictionary"} -> data_type.tag
      [] data_type.tag \in {"Int32", "Date32", "Time32", "IntervalYearMonth"} -> "Int32"
      [] data_type.tag \in {"Int64", "Date64", "Timestamp", "Time64", "Duration"} -> "Int64"
      [] data_type.tag = "Decimal" -> "Int128"
      [] data_type.tag = "Decimal256" -> "Int256"
      [] data_type.tag = "IntervalDayTime" -> "DaysMs"
      [] OTHER -> "MonthDayNano"

\* n_columns: the number of leaf columns a (sub)tree of the schema owns.
RECURSIVE n_columns(_)
n_columns(data_type) ==
    IF data_type.tag \in ListTags \cup {"Map"}
    THEN n_columns(data_type.children[1].data_type)
    ELSE IF data_type.tag = "Struct"
         THEN SumSeq([i \in 1..Len(data_type.children) |->
                          n_columns(data_type.children[i].data_type)])
         ELSE 1

(* ------------------------------------------------------------------ *)
(* Parquet side: physical types and page sources                       *)
(* ------------------------------------------------------------------ *)
\* PrimitiveType: the parquet physical type of one leaf column; n is the
\* byte length of a FixedLenByteArray; id is the column's field id.
PrimitiveType(physical_type, n, id) == [physical_type |-> physical_type, n |-> n, id |-> id]

\* Pages: the page source of one leaf column: its id, the physical type its
\* values are stored in, the logical type its writer stored, the fixed list
\* sizes of the list levels above it (0 for a variable-size level), and a
\* seed that picks the stored values and list lengths.
Pages(id, physical_type, logical, sizes, seed) ==
    [id |-> id, physical_type |-> physical_type, logical |-> logical,
     sizes |-> sizes, seed |-> seed]

(* ------------------------------------------------------------------ *)
(* Nesting context and results of a dispatch                           *)
(* ------------------------------------------------------------------ *)
\* InitNested: one level of the nesting context.
InitNested(tag, nullable) == [tag |-> tag, nullable |-> nullable]

NoIter == [node |-> "none"]

NoErr == [class |-> "none", about |-> ""]

\* Error::nyi and Error::InvalidArgumentError, with the type the message names.
Error(class, about) == [class |-> class, about |-> about]

NoPops == [columns |-> 0, types |-> 0, num_values |-> 0]

\* The outcome of one arm: Ok(iter), Err(err) or a panic, with the record
\* of what the arm did on the way: the context entries it pushed, the entries
\* it popped from each vector, and the recursive calls it made.
Ok(iter, pushed, popped, calls) ==
    [kind |-> "Ok", iter |-> iter, err |-> NoErr,
     pushed |-> pushed, popped |-> popped, calls |-> calls]

Err(err, pushed, popped, calls) ==
    [kind |-> "Err", iter |-> NoIter, err |-> err,
     pushed |-> pushed, popped |-> popped, calls |-> calls]

Panic(pushed, popped, calls) ==
    [kind |-> "Panic", iter |-> NoIter, err |-> NoErr,
     pushed |-> pushed, popped |-> popped, calls |-> calls]

\* The arguments of one call of columns_to_iter_recursive; path is the
\* position of the field in the schema tree (child indices from the root).
Args(columns, types, field, init, num_rows, chunk_size, num_values, is_parent_nullable, path) ==
    [columns |-> columns, types |-> types, field |-> field, init |-> init,
     num_rows |-> num_rows, chunk_size |-> chunk_size, num_values |-> num_values,
     is_parent_nullable |-> is_parent_nullable, path |-> path]

\* The lazy sequence a leaf arm returns: a leaf decoder (NestedIter or
\* NestedDictIter) over one page source, wrapped by the adapter that pops
\* the primitive level. num_values and is_parent_nullable are absent (<<>>)
\* for the dictionary decoders; n is the byte width of a fixed-size binary.
LeafIter(decoder, wrap, cast, n, column, init, data_type, num_rows, chunk_size, num_values, is_parent_nullable, path) ==
    [node |-> "leaf", decoder |-> decoder, wrap |-> wrap, cast |-> cast, n |-> n,
     column |-> column, init |-> init, data_type |-> data_type,
     num_rows |-> num_rows, chunk_size |-> chunk_size, num_values |-> num_values,
     is_parent_nullable |-> is_parent_nullable, path |-> path]

\* iter.map(create_list / create_map) over the inner field's sequence.
MapIter(assembler, data_type, iter, path) ==
    [node |-> "map", assembler |-> assembler, data_type |-> data_type,
     iter |-> iter, path |-> path]

\* struct_::StructIterator::new(columns, fields)
StructIterator(iters, fields, path) ==
    [node |-> "struct", iters |-> iters, fields |-> fields, path |-> path]

(* ------------------------------------------------------------------ *)
(* The dispatcher                                                      *)
(* ------------------------------------------------------------------ *)
RECURSIVE columns_to_iter_recursive(_, _, _, _, _, _, _, _, _)

\* The decoder, the adapter and the value cast of the arms keyed by the
\* field's physical type alone (Null ... LargeUtf8).
PhysArms ==
    [Null |-> [decoder |-> "null::NestedIter", wrap |-> "primitive", cast |-> "none"],
     Boolean |-> [decoder |-> "boolean::NestedIter", wrap |-> "primitive", cast |-> "none"],
     Int8 |-> [decoder |-> "primitive::NestedIter", wrap |-> "primitive", cast |-> "i32_as_i8"],
     Int16 |-> [decoder |-> "primitive::NestedIter", wrap |-> "primitive", cast |-> "i32_as_i16"],
     Int32 |-> [decoder |-> "primitive::NestedIter", wrap |-> "primitive", cast |-> "i32"],
     Int64 |-> [decoder |-> "primitive::NestedIter", wrap |-> "primitive", cast |-> "i64"],
     UInt8 |-> [decoder |-> "primitive::NestedIter", wrap |-> "primitive", cast |-> "i32_as_u8"],
     UInt16 |-> [decoder |-> "primitive::NestedIter", wrap |-> "primitive", cast |-> "i32_as_u16"],
     UInt64 |-> [decoder |-> "primitive::NestedIter", wrap |-> "primitive", cast |-> "i64_as_u64"],
     Float32 |-> [decoder |-> "primitive::NestedIter", wrap |-> "primitive", cast |-> "f32"],
     Float64 |-> [decoder |-> "primitive::NestedIter", wrap |-> "primitive", cast |-> "f64"],
     Binary |-> [decoder |-> "binary::NestedIter<i32>", wrap |-> "remove_nested", cast |-> "none"],
     Utf8 |-> [decoder |-> "binary::NestedIter<i32>", wrap |-> "remove_nested", cast |-> "none"],
     LargeBinary |-> [decoder |-> "binary::NestedIter<i64>", wrap |-> "remove_nested", cast |-> "none"],
     LargeUtf8 |-> [decoder |-> "binary::NestedIter<i64>", wrap |-> "remove_nested", cast |-> "none"]]

\* The tail of a leaf arm: columns.pop().unwrap(), then
\* num_values.pop().unwrap(), then the decoder over them. init and
\* popped_types are what the arm has already pushed and popped.
\* A leaf arm tail that folds the leaf's own nullability into the flag.
LeafDecoder_OwnNullable(a, init, popped_types, decoder, wrap, cast, n, data_type) ==
    LET pushed == <<Last(init)>>
    IN  IF a.columns = <<>>
        THEN Panic(pushed, [NoPops EXCEPT !.types = popped_types], <<>>)
        ELSE IF a.num_values = <<>>
        THEN Panic(pushed, [columns |-> 1, types |-> popped_types, num_values |-> 0], <<>>)
        ELSE Ok(LeafIter(decoder, wrap, cast, n, Last(a.columns), init, data_type,
                         a.num_rows, a.chunk_size, <<Last(a.num_values)>>,
                         <<a.is_parent_nullable \/ a.field.is_nullable>>, a.path),
                pushed, [columns |-> 1, types |-> popped_types, num_values |-> 1], <<>>)

LeafDecoder(a, init, popped_types, decoder, wrap, cast, n, data_type) ==
    LET pushed == <<Last(init)>>
    IN  IF a.columns = <<>>
        THEN Panic(pushed, [NoPops EXCEPT !.types = popped_types], <<>>)
        ELSE IF a.num_values = <<>>
        THEN Panic(pushed, [columns |-> 1, types |-> popped_types, num_values |-> 0], <<>>)
        ELSE Ok(LeafIter(decoder, wrap, cast, n, Last(a.columns), init, data_type,
                         a.num_rows, a.chunk_size, <<Last(a.num_values)>>,
                         <<a.is_parent_nullable>>, a.path),
                pushed, [columns |-> 1, types |-> popped_types, num_values |-> 1], <<>>)

\* A leaf arm that tags the primitive level with is_parent_nullable.
LeafArm_ParentNullable(a) ==
    LET arm == PhysArms[to_physical_type(a.field.data_type)]
        init == Append(a.init, InitNested("Primitive", a.is_parent_nullable))
    IN  LeafDecoder(a, init, IF a.types = <<>> THEN 0 ELSE 1,
                    arm.decoder, arm.wrap, arm.cast, 0, a.field.data_type)

\* Null, Boolean, Int8..Int64, UInt8, UInt16, UInt64, Float32, Float64,
\* Binary | Utf8, LargeBinary | LargeUtf8: push the primitive level, drop
\* the physical type hint (types.pop() without unwrap), build the decoder.
LeafArm(a) ==
    LET arm == PhysArms[to_physical_type(a.field.data_type)]
        init == Append(a.init, InitNested("Primitive", a.field.is_nullable))
    IN  LeafDecoder(a, init, IF a.types = <<>> THEN 0 ELSE 1,
                    arm.decoder, arm.wrap, arm.cast, 0, a.field.data_type)

\* A UInt32 arm that reports an unsupported physical type as an invalid
\* argument.
UInt32Arm_InvalidArgument(a) ==
    LET init == Append(a.init, InitNested("Primitive", a.field.is_nullable))
        pushed == <<Last(init)>>
        type_ == Last(a.types)
    IN  CASE type_.physical_type = "Int32" ->
                LeafDecoder(a, init, 1, "primitive::NestedIter", "primitive",
                            "i32_as_u32", 0, a.field.data_type)
          [] type_.physical_type = "Int64" ->
                LeafDecoder(a, init, 1, "primitive::NestedIter", "primitive",
                            "i64_as_u32", 0, a.field.data_type)
          [] OTHER ->
                Err(Error("InvalidArgument", type_.physical_type), pushed,
                    [NoPops EXCEPT !.types = 1], <<>>)

\* Primitive(UInt32): the physical type hint picks the 32- or 64-bit decoder.
UInt32Arm(a) ==
    LET init == Append(a.init, InitNested("Primitive", a.field.is_nullable))
        pushed == <<Last(init)>>
    IN  IF a.types = <<>> THEN Panic(pushed, NoPops, <<>>)
        ELSE LET type_ == Last(a.types)
             IN  CASE type_.physical_type = "Int32" ->
                        LeafDecoder(a, init, 1, "primitive::NestedIter", "primitive",
                                    "i32_as_u32", 0, a.field.data_type)
                   [] type_.physical_type = "Int64" ->
                        LeafDecoder(a, init, 1, "primitive::NestedIter", "primitive",
                                    "i64_as_u32", 0, a.field.data_type)
                   [] OTHER ->
                        Err(Error("nyi", type_.physical_type), pushed,
                            [NoPops EXCEPT !.types = 1], <<>>)

\* dict_read<K>: the dictionary leaf, keyed by the dictionary's value type.
\* Every supported value type gets a NestedDictIter wrapped by primitive.
dict_read(K, iter, init, type_, data_type, num_rows, chunk_size) ==
    LET v == data_type.value
        leaf(decoder, cast) ==
            [kind |-> "Ok", err |-> NoErr,
             iter |-> LeafIter(decoder, "primitive", cast, 0, iter, init, data_type,
                               num_rows, chunk_size, <<>>, <<>>, <<>>)]
    IN  CASE v = "UInt8" -> leaf("primitive::NestedDictIter", "i32_as_u8")
          [] v = "UInt16" -> leaf("primitive::NestedDictIter", "i32_as_u16")
          [] v = "UInt32" -> leaf("primitive::NestedDictIter", "i32_as_u32")
          [] v = "Int8" -> leaf("primitive::NestedDictIter", "i32_as_i8")
          [] v = "Int16" -> leaf("primitive::NestedDictIter", "i32_as_i16")
          [] v \in {"Int32", "Date32", "Time32", "IntervalYearMonth"} ->
                leaf("primitive::NestedDictIter", "i32")
          [] v \in {"Int64", "Date64", "Time64", "Duration"} ->
                leaf("primitive::NestedDictIter", "i64_as_i32")
          [] v = "Float32" -> leaf("primitive::NestedDictIter", "f32")
          [] v = "Float64" -> leaf("primitive::NestedDictIter", "f64")
          [] v \in {"Utf8", "Binary"} -> leaf("binary::NestedDictIter<i32>", "none")
          [] v \in {"LargeUtf8", "LargeBinary"} -> leaf("binary::NestedDictIter<i64>", "none")
          [] v = "FixedSizeBinary" -> leaf("fixed_size_binary::NestedDictIter", "none")
          [] OTHER -> [kind |-> "Err", err |-> Error("nyi", v), iter |-> NoIter]

\* DataType::Dictionary: push the primitive level, take the type hint and
\* the column (both unwrapped), leave num_values alone, delegate to dict_read.
DictionaryArm(a) ==
    LET init == Append(a.init, InitNested("Primitive", a.field.is_nullable))
        pushed == <<Last(init)>>
    IN  IF a.types = <<>> THEN Panic(pushed, NoPops, <<>>)
        ELSE IF a.columns = <<>> THEN Panic(pushed, [NoPops EXCEPT !.types = 1], <<>>)
        ELSE LET r == dict_read(a.field.data_type.key, Last(a.columns), init,
                                Last(a.types), a.field.data_type, a.num_rows,
                                a.chunk_size)
                 popped == [columns |-> 1, types |-> 1, num_values |-> 0]
             IN  IF r.kind = "Ok"
                 THEN Ok([r.iter EXCEPT !.path = a.path], pushed, popped, <<>>)
                 ELSE Err(r.err, pushed, popped, <<>>)

\* A list arm that swallows the error of the inner field and returns an
\* empty sequence in its place.
ListArm_SwallowError(a) ==
    LET init == Append(a.init, InitNested("List", a.field.is_nullable))
        r == columns_to_iter_recursive(a.columns, a.types,
                 a.field.data_type.children[1], init, a.num_rows, a.chunk_size,
                 a.num_values, a.is_parent_nullable \/ a.field.is_nullable,
                 Append(a.path, 1))
    IN  IF r.kind = "Panic"
        THEN [r EXCEPT !.pushed = <<Last(init)>>, !.popped = NoPops]
        ELSE Ok(MapIter("create_list", a.field.data_type,
                        IF r.kind = "Ok" THEN r.iter
                        ELSE StructIterator(<<>>, <<>>, Append(a.path, 1)),
                        a.path),
                <<Last(init)>>, NoPops, r.calls)

\* DataType::List | LargeList | FixedSizeList: push the list level, recurse
\* into the inner field with the vectors as they are, map create_list.
ListArm(a) ==
    LET init == Append(a.init, InitNested("List", a.field.is_nullable))
        r == columns_to_iter_recursive(a.columns, a.types,
                 a.field.data_type.children[1], init, a.num_rows, a.chunk_size,
                 a.num_values, a.is_parent_nullable \/ a.field.is_nullable,
                 Append(a.path, 1))
    IN  IF r.kind = "Ok"
        THEN Ok(MapIter("create_list", a.field.data_type, r.iter, a.path),
                <<Last(init)>>, NoPops, r.calls)
        ELSE [r EXCEPT !.pushed = <<Last(init)>>, !.popped = NoPops]

\* A map arm that pushes a struct level in the place of the list level.
MapArm_StructLevel(a) ==
    LET init == Append(a.init, InitNested("Struct", a.field.is_nullable))
        r == columns_to_iter_recursive(a.columns, a.types,
                 a.field.data_type.children[1], init, a.num_rows, a.chunk_size,
                 a.num_values, a.is_parent_nullable \/ a.field.is_nullable,
                 Append(a.path, 1))
    IN  IF r.kind = "Ok"
        THEN Ok(MapIter("create_map", a.field.data_type, r.iter, a.path),
                <<Last(init)>>, NoPops, r.calls)
        ELSE [r EXCEPT !.pushed = <<Last(init)>>, !.popped = NoPops]

\* DataType::Map: as the list arm, with create_map.
MapArm(a) ==
    LET init == Append(a.init, InitNested("List", a.field.is_nullable))
        r == columns_to_iter_recursive(a.columns, a.types,
                 a.field.data_type.children[1], init, a.num_rows, a.chunk_size,
                 a.num_values, a.is_parent_nullable \/ a.field.is_nullable,
                 Append(a.path, 1))
    IN  IF r.kind = "Ok"
        THEN Ok(MapIter("create_map", a.field.data_type, r.iter, a.path),
                <<Last(init)>>, NoPops, r.calls)
        ELSE [r EXCEPT !.pushed = <<Last(init)>>, !.popped = NoPops]

\* A decimal arm whose width guard is off by one (n > 17).
DecimalArm_Guard17(a) ==
    LET init == Append(a.init, InitNested("Primitive", a.field.is_nullable))
        pushed == <<Last(init)>>
        type_ == Last(a.types)
    IN  CASE type_.physical_type = "Int32" ->
                LeafDecoder(a, init, 1, "primitive::NestedIter", "primitive",
                            "i32_as_i128", 0, a.field.data_type)
          [] type_.physical_type = "Int64" ->
                LeafDecoder(a, init, 1, "primitive::NestedIter", "primitive",
                            "i64_as_i128", 0, a.field.data_type)
          [] type_.physical_type = "FixedLenByteArray" /\ type_.n > 17 ->
                Err(Error("InvalidArgument", "FixedLenByteArray"), pushed,
                    [NoPops EXCEPT !.types = 1], <<>>)
          [] type_.physical_type = "FixedLenByteArray" ->
                LeafDecoder(a, init, 1, "fixed_size_binary::NestedIter",
                            "convert_i128", "none", type_.n, DT("FixedSizeBinary"))
          [] OTHER ->
                Err(Error("nyi", type_.physical_type), pushed,
                    [NoPops EXCEPT !.types = 1], <<>>)

\* DataType::Decimal: Int32 and Int64 widen through the cast; a
\* FixedLenByteArray(n) of more than 16 bytes is an invalid argument, one of
\* at most 16 bytes is decoded as fixed-size binary and converted per item.
DecimalArm(a) ==
    LET init == Append(a.init, InitNested("Primitive", a.field.is_nullable))
        pushed == <<Last(init)>>
    IN  IF a.types = <<>> THEN Panic(pushed, NoPops, <<>>)
        ELSE LET type_ == Last(a.types)
             IN  CASE type_.physical_type = "Int32" ->
                        LeafDecoder(a, init, 1, "primitive::NestedIter", "primitive",
                                    "i32_as_i128", 0, a.field.data_type)
                   [] type_.physical_type = "Int64" ->
                        LeafDecoder(a, init, 1, "primitive::NestedIter", "primitive",
                                    "i64_as_i128", 0, a.field.data_type)
                   [] type_.physical_type = "FixedLenByteArray" /\ type_.n > 16 ->
                        Err(Error("InvalidArgument", "FixedLenByteArray"), pushed,
                            [NoPops EXCEPT !.types = 1], <<>>)
                   [] type_.physical_type = "FixedLenByteArray" ->
                        LeafDecoder(a, init, 1, "fixed_size_binary::NestedIter",
                                    "convert_i128", "none", type_.n, DT("FixedSizeBinary"))
                   [] OTHER ->
                        Err(Error("nyi", type_.physical_type), pushed,
                            [NoPops EXCEPT !.types = 1], <<>>)

\* A Decimal256 arm whose second width guard is strict (n < 32).
Decimal256Arm_Strict32(a) ==
    LET init == Append(a.init, InitNested("Primitive", a.field.is_nullable))
        pushed == <<Last(init)>>
        type_ == Last(a.types)
    IN  CASE type_.physical_type = "Int32" ->
                LeafDecoder(a, init, 1, "primitive::NestedIter", "primitive",
                            "i32_as_i256", 0, a.field.data_type)
          [] type_.physical_type = "Int64" ->
                LeafDecoder(a, init, 1, "primitive::NestedIter", "primitive",
                            "i64_as_i256", 0, a.field.data_type)
          [] type_.physical_type = "FixedLenByteArray" /\ type_.n <= 16 ->
                LeafDecoder(a, init, 1, "fixed_size_binary::NestedIter",
                            "i256_of_convert_i128", "none", type_.n,
                            DT("FixedSizeBinary"))
          [] type_.physical_type = "FixedLenByteArray" /\ type_.n > 16
             /\ type_.n < 32 ->
                LeafDecoder(a, init, 1, "fixed_size_binary::NestedIter",
                            "convert_i256", "none", type_.n, DT("FixedSizeBinary"))
          [] type_.physical_type = "FixedLenByteArray" ->
                Err(Error("InvalidArgument", "FixedLenByteArray"), pushed,
                    [NoPops EXCEPT !.types = 1], <<>>)
          [] OTHER ->
                Err(Error("nyi", type_.physical_type), pushed,
                    [NoPops EXCEPT !.types = 1], <<>>)

\* DataType::Decimal256: as Decimal, with FixedLenByteArray(n) converted
\* through convert_i128 for n <= 16 and through convert_i256 for n <= 32.
Decimal256Arm(a) ==
    LET init == Append(a.init, InitNested("Primitive", a.field.is_nullable))
        pushed == <<Last(init)>>
    IN  IF a.types = <<>> THEN Panic(pushed, NoPops, <<>>)
        ELSE LET type_ == Last(a.types)
             IN  CASE type_.physical_type = "Int32" ->
                        LeafDecoder(a, init, 1, "primitive::NestedIter", "primitive",
                                    "i32_as_i256", 0, a.field.data_type)
                   [] type_.physical_type = "Int64" ->
                        LeafDecoder(a, init, 1, "primitive::NestedIter", "primitive",
                                    "i64_as_i256", 0, a.field.data_type)
                   [] type_.physical_type = "FixedLenByteArray" /\ type_.n <= 16 ->
                        LeafDecoder(a, init, 1, "fixed_size_binary::NestedIter",
                                    "i256_of_convert_i128", "none", type_.n,
                                    DT("FixedSizeBinary"))
                   [] type_.physical_type = "FixedLenByteArray" /\ type_.n > 16
                      /\ type_.n <= 32 ->
                        LeafDecoder(a, init, 1, "fixed_size_binary::NestedIter",
                                    "convert_i256", "none", type_.n, DT("FixedSizeBinary"))
                   [] type_.physical_type = "FixedLenByteArray" /\ type_.n > 32 ->
                        Err(Error("InvalidArgument", "FixedLenByteArray"), pushed,
                            [NoPops EXCEPT !.types = 1], <<>>)
                   [] OTHER ->
                        Err(Error("nyi", type_.physical_type), pushed,
                            [NoPops EXCEPT !.types = 1], <<>>)

\* The closure of the struct arm over fields.iter().rev(), collected into a
\* Result: child i is handed the last n_columns entries of what is left of
\* each vector and a clone of the context with the struct level pushed; the
\* first child that fails ends the walk. acc holds the sequences built so
\* far (in visiting order), the levels pushed and the calls made.
RECURSIVE StructFields(_, _, _, _)

\* A struct arm that has its first field decoded as one single chunk.
StructFields_Unchunked(a, i, rest, acc) ==
    IF i = 0
    THEN Ok(acc.iters, acc.pushed, NoPops, acc.calls)
    ELSE LET f == a.field.data_type.children[i]
             init == Append(a.init, InitNested("Struct", a.field.is_nullable))
             pushed == Append(acc.pushed, Last(init))
             n == n_columns(f.data_type)
             nc == Len(rest.columns)
             nt == Len(rest.types)
             nv == Len(rest.num_values)
         IN  IF n > nc \/ n > nt \/ n > nv
             THEN Panic(pushed, NoPops, acc.calls)
             ELSE LET r == columns_to_iter_recursive(
                               SubSeq(rest.columns, nc - n + 1, nc),
                               SubSeq(rest.types, nt - n + 1, nt),
                               f, init, a.num_rows,
                               IF i = 1 THEN <<>> ELSE a.chunk_size,
                               SubSeq(rest.num_values, nv - n + 1, nv),
                               a.is_parent_nullable \/ a.field.is_nullable,
                               Append(a.path, i))
                  IN  IF r.kind # "Ok"
                      THEN [r EXCEPT !.pushed = pushed, !.popped = NoPops,
                                     !.calls = acc.calls \o r.calls]
                      ELSE StructFields(a, i - 1,
                               [columns |-> SubSeq(rest.columns, 1, nc - n),
                                types |-> SubSeq(rest.types, 1, nt - n),
                                num_values |-> SubSeq(rest.num_values, 1, nv - n)],
                               [iters |-> Append(acc.iters, r.iter),
                                pushed |-> pushed,
                                calls |-> acc.calls \o r.calls])

\* A struct arm that leaves the physical types undrained: every field is
\* handed all the types that are left.
StructFields_KeepTypes(a, i, rest, acc) ==
    IF i = 0
    THEN Ok(acc.iters, acc.pushed, NoPops, acc.calls)
    ELSE LET f == a.field.data_type.children[i]
             init == Append(a.init, InitNested("Struct", a.field.is_nullable))
             pushed == Append(acc.pushed, Last(init))
             n == n_columns(f.data_type)
             nc == Len(rest.columns)
             nt == Len(rest.types)
             nv == Len(rest.num_values)
         IN  IF n > nc \/ n > nt \/ n > nv
             THEN Panic(pushed, NoPops, acc.calls)
             ELSE LET r == columns_to_iter_recursive(
                               SubSeq(rest.columns, nc - n + 1, nc),
                               rest.types,
                               f, init, a.num_rows, a.chunk_size,
                               SubSeq(rest.num_values, nv - n + 1, nv),
                               a.is_parent_nullable \/ a.field.is_nullable,
                               Append(a.path, i))
                  IN  IF r.kind # "Ok"
                      THEN [r EXCEPT !.pushed = pushed, !.popped = NoPops,
                                     !.calls = acc.calls \o r.calls]
                      ELSE StructFields(a, i - 1,
                               [columns |-> SubSeq(rest.columns, 1, nc - n),
                                types |-> rest.types,
                                num_values |-> SubSeq(rest.num_values, 1, nv - n)],
                               [iters |-> Append(acc.iters, r.iter),
                                pushed |-> pushed,
                                calls |-> acc.calls \o r.calls])

StructFields(a, i, rest, acc) ==
    IF i = 0
    THEN Ok(acc.iters, acc.pushed, NoPops, acc.calls)
    ELSE LET f == a.field.data_type.children[i]
             init == Append(a.init, InitNested("Struct", a.field.is_nullable))
             pushed == Append(acc.pushed, Last(init))
             n == n_columns(f.data_type)
             nc == Len(rest.columns)
             nt == Len(rest.types)
             nv == Len(rest.num_values)
         IN  IF n > nc \/ n > nt \/ n > nv
             THEN Panic(pushed, NoPops, acc.calls)
             ELSE LET r == columns_to_iter_recursive(
                               SubSeq(rest.columns, nc - n + 1, nc),
                               SubSeq(rest.types, nt - n + 1, nt),
                               f, init, a.num_rows, a.chunk_size,
                               SubSeq(rest.num_values, nv - n + 1, nv),
                               a.is_parent_nullable \/ a.field.is_nullable,
                               Append(a.path, i))
                  IN  IF r.kind # "Ok"
                      THEN [r EXCEPT !.pushed = pushed, !.popped = NoPops,
                                     !.calls = acc.calls \o r.calls]
                      ELSE StructFields(a, i - 1,
                               [columns |-> SubSeq(rest.columns, 1, nc - n),
                                types |-> SubSeq(rest.types, 1, nt - n),
                                num_values |-> SubSeq(rest.num_values, 1, nv - n)],
                               [iters |-> Append(acc.iters, r.iter),
                                pushed |-> pushed,
                                calls |-> acc.calls \o r.calls])

\* The struct arm without the final rev(): the sequences stay in visiting
\* order, last field first.
StructArm_Unreversed(a) ==
    LET fields == a.field.data_type.children
        r == StructFields(a, Len(fields),
                 [columns |-> a.columns, types |-> a.types, num_values |-> a.num_values],
                 [iters |-> <<>>, pushed |-> <<>>, calls |-> <<>>])
    IN  IF r.kind = "Ok"
        THEN [r EXCEPT !.iter = StructIterator(r.iter, fields, a.path)]
        ELSE r

\* DataType::Struct: dispatch the fields last to first, reverse the
\* sequences back to declaration order, hand them to the StructIterator.
StructArm(a) ==
    LET fields == a.field.data_type.children
        r == StructFields(a, Len(fields),
                 [columns |-> a.columns, types |-> a.types, num_values |-> a.num_values],
                 [iters |-> <<>>, pushed |-> <<>>, calls |-> <<>>])
    IN  IF r.kind = "Ok"
        THEN [r EXCEPT !.iter = StructIterator(Reverse(r.iter), fields, a.path)]
        ELSE r

\* Any other logical type: not yet implemented, naming the type.
ResidualArm(a) == Err(Error("nyi", a.field.data_type.tag), <<>>, NoPops, <<>>)

\* The record of one call: its arguments and what came of it.
CallRecord(a, r) ==
    [path |-> a.path, field |-> a.field, columns |-> a.columns, types |-> a.types,
     num_values |-> a.num_values, init |-> a.init, num_rows |-> a.num_rows,
     chunk_size |-> a.chunk_size, is_parent_nullable |-> a.is_parent_nullable,
     kind |-> r.kind, err |-> r.err, pushed |-> r.pushed, popped |-> r.popped]

\* The match of columns_to_iter_recursive: first on the physical type of
\* the field's data type, then, in the residual bucket, on its logical type.
\* The result lists the call itself before the calls made under it.
columns_to_iter_recursive(columns, types, field, init, num_rows, chunk_size, num_values, is_parent_nullable, path) ==
    LET a == Args(columns, types, field, init, num_rows, chunk_size, num_values,
                  is_parent_nullable, path)
        phys == to_physical_type(field.data_type)
        tag == field.data_type.tag
        r == CASE phys \in DOMAIN PhysArms -> LeafArm(a)
               [] phys = "UInt32" -> UInt32Arm(a)
               [] tag = "Dictionary" -> DictionaryArm(a)
               [] tag \in ListTags -> ListArm(a)
               [] tag = "Decimal" -> DecimalArm(a)
               [] tag = "Decimal256" -> Decimal256Arm(a)
               [] tag = "Struct" -> StructArm(a)
               [] tag = "Map" -> MapArm(a)
               [] OTHER -> ResidualArm(a)
    IN  [r EXCEPT !.calls = <<CallRecord(a, r)>> \o r.calls]

(* ------------------------------------------------------------------ *)
(* Values: fixed-width integers as big-endian bytes                    *)
(* ------------------------------------------------------------------ *)
\* A value is a typed byte string: ty names a Rust integer type (or an
\* opaque type for floats, booleans and binary), bytes is big-endian.
Value(ty, bytes) == [ty |-> ty, bytes |-> bytes]

IntBytes == [i8 |-> 1, u8 |-> 1, i16 |-> 2, u16 |-> 2, i32 |-> 4, u32 |-> 4,
             i64 |-> 8, u64 |-> 8, i128 |-> 16, i256 |-> 32]

Signed == {"i8", "i16", "i32", "i64", "i128", "i256"}

IsNegative(v) == v.ty \in Signed /\ v.bytes[1] >= 128

\* Rust's `x as T` between integer types: truncate to the low bytes when T
\* is narrower or as wide; otherwise extend, with the sign when x is signed.
AsCast(v, ty) ==
    LET from == Len(v.bytes)
        to == IntBytes[ty]
        fill == IF IsNegative(v) THEN 255 ELSE 0
    IN  Value(ty, IF to <= from
                  THEN SubSeq(v.bytes, from - to + 1, from)
                  ELSE [i \in 1..(to - from) |-> fill] \o v.bytes)

\* The casts with i32 -> u32 clamping negative values to zero.
Cast_ClampNegative(cast, x) ==
    CASE cast = "i32_as_u32" ->
            IF IsNegative(x) THEN Value("u32", <<0, 0, 0, 0>>) ELSE AsCast(x, "u32")
      [] cast = "i64_as_u32" -> AsCast(x, "u32")
      [] cast \in {"i32_as_i8", "i32_as_i16", "i32_as_u8", "i32_as_u16", "i64_as_u64",
                  "i64_as_i32", "i32_as_i128", "i64_as_i128"} ->
            AsCast(x, CASE cast = "i32_as_i8" -> "i8" [] cast = "i32_as_i16" -> "i16"
                        [] cast = "i32_as_u8" -> "u8" [] cast = "i32_as_u16" -> "u16"
                        [] cast = "i64_as_u64" -> "u64" [] cast = "i64_as_i32" -> "i32"
                        [] OTHER -> "i128")
      [] cast \in {"i32_as_i256", "i64_as_i256"} -> AsCast(AsCast(x, "i128"), "i256")
      [] OTHER -> x

\* The value-cast closures handed to the primitive decoders.
Cast(cast, x) ==
    CASE cast = "i32_as_i8" -> AsCast(x, "i8")
      [] cast = "i32_as_i16" -> AsCast(x, "i16")
      [] cast = "i32_as_u8" -> AsCast(x, "u8")
      [] cast = "i32_as_u16" -> AsCast(x, "u16")
      [] cast = "i32_as_u32" -> AsCast(x, "u32")
      [] cast = "i64_as_u32" -> AsCast(x, "u32")
      [] cast = "i64_as_u64" -> AsCast(x, "u64")
      [] cast = "i64_as_i32" -> AsCast(x, "i32")
      [] cast = "i32_as_i128" -> AsCast(x, "i128")
      [] cast = "i64_as_i128" -> AsCast(x, "i128")
      [] cast = "i32_as_i256" -> AsCast(AsCast(x, "i128"), "i256")
      [] cast = "i64_as_i256" -> AsCast(AsCast(x, "i128"), "i256")
      [] OTHER -> x

(* ------------------------------------------------------------------ *)
(* Page contents                                                       *)
(* ------------------------------------------------------------------ *)
\* The numbers a writer of a UInt32 column holds: 0, 1, 2^31 - 1, 2^31,
\* 2^32 - 1.
U32Samples ==
    << <<0, 0, 0, 0>>, <<0, 0, 0, 1>>, <<127, 255, 255, 255>>, <<128, 0, 0, 0>>,
       <<255, 255, 255, 255>> >>

\* 32-bit patterns of an Int32 column: 0, 1, i32::MAX, i32::MIN, -1.
I32Samples == U32Samples

\* 64-bit patterns of an Int64 column: 0, -1, 2^32 + 5, i64::MAX, i64::MIN.
I64Samples ==
    << <<0, 0, 0, 0, 0, 0, 0, 0>>, <<255, 255, 255, 255, 255, 255, 255, 255>>,
       <<0, 0, 0, 1, 0, 0, 0, 5>>, <<127, 255, 255, 255, 255, 255, 255, 255>>,
       <<128, 0, 0, 0, 0, 0, 0, 0>> >>

\* Leading bytes of a FixedLenByteArray value.
LeadSamples == <<0, 255, 127, 128, 1>>

Pick(samples, pages, i) == samples[((2 * pages.seed + pages.id + i) % Len(samples)) + 1]

\* The number the writer of a UInt32 column held for slot i.
Underlying(pages, i) == Value("u32", Pick(U32Samples, pages, i))

\* How a writer stores a u32 in an Int32 column (the same 32 bits) and in an
\* Int64 column (the number itself, zero-extended).
StoreU32(physical_type, u) ==
    IF physical_type = "Int32"
    THEN Value("i32", u.bytes)
    ELSE Value("i64", <<0, 0, 0, 0>> \o u.bytes)

\* The physical value stored in slot i of a column; n is the byte width of
\* a fixed-size binary column.
Stored(pages, n, i) ==
    CASE pages.logical = "UInt32" /\ pages.physical_type \in {"Int32", "Int64"} ->
            StoreU32(pages.physical_type, Underlying(pages, i))
      [] pages.physical_type = "Int32" -> Value("i32", Pick(I32Samples, pages, i))
      [] pages.physical_type = "Int64" -> Value("i64", Pick(I64Samples, pages, i))
      [] pages.physical_type = "FixedLenByteArray" ->
            Value("bytes", [b \in 1..n |->
                               IF b = 1 THEN Pick(LeadSamples, pages, i) ELSE (i + b) % 256])
      [] OTHER -> Value(pages.physical_type, <<(pages.seed + i) % 2>>)

\* The length of the list stored at position idx of the k-th list level
\* above a column: the fixed size of a FixedSizeList, else picked by the seed.
ListLen(pages, k, idx) ==
    IF k <= Len(pages.sizes) /\ pages.sizes[k] > 0
    THEN pages.sizes[k]
    ELSE (pages.seed + 2 * k + idx) % (MaxListLen + 1)

(* ------------------------------------------------------------------ *)
(* Leaf decoders: what a NestedIter yields                             *)
(* ------------------------------------------------------------------ *)
\* Items of a lazy sequence: Ok((nested, array)), the end of the sequence
\* (None) or a panic while producing the item. pops counts the entries
\* popped from the item's NestedState so far.
OkItem(nested, array, pops) ==
    [kind |-> "Ok", nested |-> nested, array |-> array, pops |-> pops]

NoArray == [kind |-> "none"]

NoneItem == [kind |-> "None", nested |-> <<>>, array |-> NoArray, pops |-> 0]

PanicItem == [kind |-> "Panic", nested |-> <<>>, array |-> NoArray, pops |-> 0]

\* The number of items a leaf decoder yields: one if chunk_size is None,
\* else one per chunk_size rows.
NumChunks(num_rows, chunk_size) ==
    IF chunk_size = <<>> THEN 1
    ELSE (num_rows + chunk_size[1] - 1) \div chunk_size[1]

\* The rows of the j-th item.
ChunkRows(num_rows, chunk_size, j) ==
    IF chunk_size = <<>> THEN num_rows
    ELSE Min(chunk_size[1], num_rows - (j - 1) * chunk_size[1])

PrefixSum(lens, i) == SumSeq(SubSeq(lens, 1, i - 1))

\* The NestedState a leaf decoder builds from its context: one entry per
\* level of init, from the level l on; count is the number of entries of
\* level l, k the number of list levels above it, base the first row of the
\* chunk. A list level holds the start offset of each of its entries.
RECURSIVE Levels(_, _, _, _, _, _)
Levels(init, l, count, k, pages, base) ==
    IF l > Len(init)
    THEN [nested |-> <<>>, len |-> count]
    ELSE IF init[l].tag = "List"
    THEN LET lens == [i \in 1..count |-> ListLen(pages, k + 1, base + i)]
             rest == Levels(init, l + 1, SumSeq(lens), k + 1, pages, base)
             level == [tag |-> "List", nullable |-> init[l].nullable,
                       offsets |-> [i \in 1..count |-> PrefixSum(lens, i)],
                       validity |-> [i \in 1..count |->
                                        ~(init[l].nullable /\ lens[i] = 0
                                          /\ (pages.seed + i) % 2 = 0)]]
         IN  [nested |-> <<level>> \o rest.nested, len |-> rest.len]
    ELSE LET rest == Levels(init, l + 1, count, k, pages, base)
             level == [tag |-> init[l].tag, nullable |-> init[l].nullable,
                       offsets |-> <<>>,
                       validity |-> [i \in 1..count |->
                                        ~(init[l].nullable
                                          /\ (pages.seed + l + i) % 3 = 0)]]
         IN  [nested |-> <<level>> \o rest.nested, len |-> rest.len]

\* A flat array of decoded values.
FlatArray(data_type, values, validity, column) ==
    [kind |-> "Flat", data_type |-> data_type, len |-> Len(values),
     values |-> values, validity |-> validity, offsets |-> <<>>, column |-> column]

\* NestedIter::next / NestedDictIter::next for the j-th pull: the levels
\* of the context over the rows of the chunk, and the flat array of the
\* values under them, each passed through the decoder's cast.
NestedIterNext(iter, j) ==
    IF j > NumChunks(iter.num_rows, iter.chunk_size)
    THEN NoneItem
    ELSE LET base == (j - 1) * ChunkRows(iter.num_rows, iter.chunk_size, 1)
             lv == Levels(iter.init, 1, ChunkRows(iter.num_rows, iter.chunk_size, j),
                          0, iter.column, base)
             values == [i \in 1..lv.len |->
                           Cast(iter.cast, Stored(iter.column, iter.n, base + i))]
             validity == IF lv.nested = <<>> THEN <<>> ELSE Last(lv.nested).validity
         IN  OkItem(lv.nested, FlatArray(iter.data_type, values, validity, iter.column.id), 0)

(* ------------------------------------------------------------------ *)
(* Leaf wrappers and per-item conversions                              *)
(* ------------------------------------------------------------------ *)
\* nested.nested.pop().unwrap()
PopNested(x) ==
    IF x.nested = <<>> THEN PanicItem
    ELSE [x EXCEPT !.nested = Front(@), !.pops = @ + 1]

\* primitive without its pop: the item keeps the primitive level.
\* remove_nested without its pop.
remove_nested_KeepLevel(x) == x

\* remove_nested: every Ok item loses the primitive level.
remove_nested(x) == IF x.kind = "Ok" THEN PopNested(x) ELSE x

\* primitive without its pop: the item keeps the primitive level.
primitive_KeepLevel(x) == x

\* primitive: every Ok item loses the primitive level and is boxed.
primitive(x) == IF x.kind = "Ok" THEN PopNested(x) ELSE x

\* convert_i128: n big-endian bytes, sign-extended to 128 bits.
convert_i128(value, n) ==
    Value("i128", [i \in 1..(16 - n) |-> IF value[1] >= 128 THEN 255 ELSE 0] \o value)

\* convert_i256: big-endian bytes, sign-extended to 256 bits.
convert_i256(value) ==
    Value("i256", [i \in 1..(32 - Len(value)) |-> IF value[1] >= 128 THEN 255 ELSE 0]
                  \o value)

\* The closure mapped over the fixed-size-binary items of the Decimal and
\* Decimal256 arms: cut the values into chunks of n bytes (chunks_exact
\* panics for n = 0), convert each, rebuild the array under the field's own
\* data type, pop the primitive level.
DecimalItem(x, wrap, n, data_type) ==
    IF x.kind # "Ok" THEN x
    ELSE IF n = 0 THEN PanicItem
    ELSE LET values == [i \in 1..x.array.len |->
                           CASE wrap = "convert_i128" ->
                                    convert_i128(x.array.values[i].bytes, n)
                             [] wrap = "i256_of_convert_i128" ->
                                    AsCast(convert_i128(x.array.values[i].bytes, n), "i256")
                             [] OTHER -> convert_i256(x.array.values[i].bytes)]
         IN  PopNested([x EXCEPT !.array =
                 FlatArray(data_type, values, x.array.validity, x.array.column)])

(* ------------------------------------------------------------------ *)
(* Composite assemblers                                                *)
(* ------------------------------------------------------------------ *)
\* create_list: pop the list level, close its offsets with the length of
\* the child array, wrap the child as the values of the list array.
create_list(data_type, x) ==
    IF x.nested = <<>> THEN PanicItem
    ELSE LET level == Last(x.nested)
             offsets == IF data_type.tag = "FixedSizeList" THEN <<>>
                        ELSE Append(level.offsets, x.array.len)
             len == IF data_type.tag = "FixedSizeList"
                    THEN x.array.len \div data_type.size
                    ELSE Len(offsets) - 1
         IN  OkItem(Front(x.nested),
                    [kind |-> data_type.tag, data_type |-> data_type, len |-> len,
                     values |-> <<x.array>>, validity |-> level.validity,
                     offsets |-> offsets, column |-> 0],
                    x.pops + 1)

\* create_map: as create_list, tagged Map.
create_map(data_type, x) ==
    IF x.nested = <<>> THEN PanicItem
    ELSE LET level == Last(x.nested)
             offsets == Append(level.offsets, x.array.len)
         IN  OkItem(Front(x.nested),
                    [kind |-> "Map", data_type |-> data_type, len |-> Len(offsets) - 1,
                     values |-> <<x.array>>, validity |-> level.validity,
                     offsets |-> offsets, column |-> 0],
                    x.pops + 1)

\* StructIterator::next: one item of every field; the end if any field has
\* ended; the struct level popped from the context of the last field.
StructIteratorNext(fields, xs) ==
    IF \E i \in 1..Len(xs) : xs[i].kind = "None" THEN NoneItem
    ELSE IF xs = <<>> \/ \E i \in 1..Len(xs) : xs[i].kind = "Panic" THEN PanicItem
    ELSE LET nested == Last(xs).nested
         IN  IF nested = <<>> THEN PanicItem
             ELSE OkItem(Front(nested),
                         [kind |-> "Struct", data_type |-> StructDT(fields),
                          len |-> xs[1].array.len,
                          values |-> [i \in 1..Len(xs) |-> xs[i].array],
                          validity |-> Last(nested).validity,
                          offsets |-> <<>>, column |-> 0],
                         SumSeq([i \in 1..Len(xs) |-> xs[i].pops]) + 1)

(* ------------------------------------------------------------------ *)
(* Pulling the lazy sequence                                           *)
(* ------------------------------------------------------------------ *)
\* The wrapper a leaf arm put around its decoder, applied to one item.
LeafNext(iter, j) ==
    LET x == NestedIterNext(iter, j)
    IN  CASE iter.wrap = "primitive" -> primitive(x)
          [] iter.wrap = "remove_nested" -> remove_nested(x)
          [] OTHER -> DecimalItem(x, iter.wrap, iter.n,
                                  DT(IF iter.wrap = "convert_i128"
                                     THEN "Decimal" ELSE "Decimal256"))

\* The closure the list and map arms map over the inner sequence.
MapNext(iter, x) ==
    IF x.kind # "Ok" THEN x
    ELSE IF iter.assembler = "create_list"
         THEN create_list(iter.data_type, x)
         ELSE create_map(iter.data_type, x)

\* iter.next() for the j-th pull of the sequence a dispatch returned.
RECURSIVE IterNext(_, _)
IterNext(iter, j) ==
    CASE iter.node = "leaf" -> LeafNext(iter, j)
      [] iter.node = "map" -> MapNext(iter, IterNext(iter.iter, j))
      [] OTHER -> StructIteratorNext(iter.fields,
                      [i \in 1..Len(iter.iters) |-> IterNext(iter.iters[i], j)])

\* What one next() costs: the leaf decoders it pulls an item from (by
\* column id, one entry per pull) and the conversion closures it runs.
\* One next() of a wrapped leaf decoder: one item of the decoder, and for
\* the fixed-size-binary decimals the conversion closure on that item.
LeafWork(iter, x) ==
    [pulled |-> <<iter.column.id>>,
     conversions |-> IF iter.wrap \in {"primitive", "remove_nested"} \/ x.kind = "None"
                     THEN 0 ELSE 1]

\* An adapter that fetches two items of the inner sequence per next().
MapWork_Prefetch(inner, x) ==
    [pulled |-> inner.pulled \o inner.pulled,
     conversions |-> inner.conversions + IF x.kind = "None" THEN 0 ELSE 1]

\* One next() of iter.map(closure): one next() of the inner sequence, then
\* the closure on its item if there is one.
MapWork(inner, x) ==
    [pulled |-> inner.pulled,
     conversions |-> inner.conversions + IF x.kind = "None" THEN 0 ELSE 1]

\* One next() of the StructIterator: one next() of every field.
StructWork(ws) ==
    [pulled |-> Concat([i \in 1..Len(ws) |-> ws[i].pulled]),
     conversions |-> SumSeq([i \in 1..Len(ws) |-> ws[i].conversions])]

\* The cost of the j-th next() of a sequence.
RECURSIVE IterWork(_, _)
IterWork(iter, j) ==
    CASE iter.node = "leaf" -> LeafWork(iter, NestedIterNext(iter, j))
      [] iter.node = "map" -> MapWork(IterWork(iter.iter, j), IterNext(iter.iter, j))
      [] OTHER -> StructWork([i \in 1..Len(iter.iters) |-> IterWork(iter.iters[i], j)])

\* How often id occurs in a sequence of column ids.
Count(ids, id) == Cardinality({ i \in 1..Len(ids) : ids[i] = id })

(* ------------------------------------------------------------------ *)
(* Inputs: schemas with the parquet column each leaf is stored in      *)
(* ------------------------------------------------------------------ *)
\* A column schema is a schema tree whose leaves also name the physical
\* type (phys, and n for a FixedLenByteArray) their column is stored in.
Leaf(tag, value, phys, n, nullable) ==
    [tag |-> tag, nullable |-> nullable, children |-> <<>>,
     key |-> IF tag = "Dictionary" THEN "Int32" ELSE "", value |-> value,
     size |-> 0, phys |-> phys, n |-> n]

Node(tag, nullable, children) ==
    [tag |-> tag, nullable |-> nullable, children |-> children, key |-> "",
     value |-> "", size |-> IF tag = "FixedSizeList" THEN 2 ELSE 0,
     phys |-> "", n |-> 0]

\* The logical Field of a column schema.
RECURSIVE FieldOf(_)
FieldOf(s) ==
    Field([tag |-> s.tag,
           children |-> [i \in 1..Len(s.children) |-> FieldOf(s.children[i])],
           key |-> s.key, value |-> s.value, size |-> s.size],
          s.nullable)

\* The leaves of a column schema in pre-order, each with the fixed sizes of
\* the list levels above it.
RECURSIVE LeavesOf(_, _)
LeavesOf(s, sizes) ==
    IF s.children = <<>>
    THEN << [phys |-> s.phys, n |-> s.n,
             logical |-> IF s.tag = "Dictionary" THEN s.value ELSE s.tag,
             sizes |-> sizes] >>
    ELSE Concat([i \in 1..Len(s.children) |->
                    LeavesOf(s.children[i],
                             IF s.tag \in ListTags \cup {"Map"}
                             THEN Append(sizes, s.size) ELSE sizes)])

\* The three parallel vectors a caller builds for a column schema: the
\* page sources, the physical types and the value counts of its leaves, in
\* pre-order.
ColumnsOf(s, seed) ==
    LET ls == LeavesOf(s, <<>>)
    IN  [i \in 1..Len(ls) |-> Pages(i, ls[i].phys, ls[i].logical, ls[i].sizes, seed)]

TypesOf(s) ==
    LET ls == LeavesOf(s, <<>>)
    IN  [i \in 1..Len(ls) |-> PrimitiveType(ls[i].phys, ls[i].n, i)]

NumValuesOf(s) == [i \in 1..Len(LeavesOf(s, <<>>)) |-> 10 * i]

\* Leaves whose arm ignores the physical type, each with the physical type
\* parquet stores it in.
PlainLeaves ==
    { <<"Null", "Int32">>, <<"Boolean", "Boolean">>, <<"Int8", "Int32">>,
      <<"Int16", "Int32">>, <<"Int32", "Int32">>, <<"Date32", "Int32">>,
      <<"Int64", "Int64">>, <<"Timestamp", "Int64">>, <<"UInt8", "Int32">>,
      <<"UInt16", "Int32">>, <<"UInt64", "Int64">>, <<"Float32", "Float">>,
      <<"Float64", "Double">>, <<"Binary", "ByteArray">>, <<"Utf8", "ByteArray">>,
      <<"LargeBinary", "ByteArray">>, <<"LargeUtf8", "ByteArray">>,
      <<"FixedSizeBinary", "FixedLenByteArray">>, <<"Float16", "FixedLenByteArray">>,
      <<"IntervalDayTime", "FixedLenByteArray">>, <<"Union", "Int32">> }

\* Value types of a dictionary, with the physical type of the values.
DictValues ==
    { <<"UInt8", "Int32">>, <<"UInt16", "Int32">>, <<"UInt32", "Int32">>,
      <<"Int8", "Int32">>, <<"Int16", "Int32">>, <<"Int32", "Int32">>,
      <<"Date32", "Int32">>, <<"Time32", "Int32">>, <<"IntervalYearMonth", "Int32">>,
      <<"Int64", "Int64">>, <<"Date64", "Int64">>, <<"Time64", "Int64">>,
      <<"Duration", "Int64">>, <<"Float32", "Float">>, <<"Float64", "Double">>,
      <<"Utf8", "ByteArray">>, <<"Binary", "ByteArray">>,
      <<"LargeUtf8", "ByteArray">>, <<"LargeBinary", "ByteArray">>,
      <<"FixedSizeBinary", "FixedLenByteArray">>, <<"Timestamp", "Int64">>,
      <<"Boolean", "Boolean">>, <<"Decimal", "Int64">> }

\* Byte widths of a FixedLenByteArray column around the decimal limits.
FixedLens == {0, 1, 15, 16, 17, 31, 32, 33}

\* Every leaf column schema.
AllLeaves ==
    UNION { { Leaf(p[1], "", p[2], IF p[2] = "FixedLenByteArray" THEN 2 ELSE 0, b)
                : p \in PlainLeaves }
            \cup { Leaf("Dictionary", p[1], p[2], 0, b) : p \in DictValues }
            \cup { Leaf(t, "", ph, 0, b)
                     : t \in {"UInt32", "Decimal", "Decimal256"},
                       ph \in {"Int32", "Int64", "ByteArray", "Double"} }
            \cup { Leaf(t, "", "FixedLenByteArray", n, b)
                     : t \in {"UInt32", "Decimal", "Decimal256"}, n \in FixedLens }
          : b \in BOOLEAN }

\* The leaves nested schemas are built from: two that decode, one through
\* each adapter; one behind a per-item conversion; two that fail to
\* dispatch, one with each error class.
InnerLeaves ==
    { Leaf("Int32", "", "Int32", 0, b) : b \in BOOLEAN }
    \cup { Leaf("Utf8", "", "ByteArray", 0, TRUE),
           Leaf("Decimal256", "", "FixedLenByteArray", 20, FALSE),
           Leaf("UInt32", "", "ByteArray", 0, FALSE),
           Leaf("Decimal", "", "FixedLenByteArray", 17, TRUE) }

\* Schema trees of exactly n nodes over List and Struct; sequences of such
\* trees with m nodes in all.
RECURSIVE TreesOfSize(_)
RECURSIVE ForestsOfSize(_)
TreesOfSize(n) ==
    IF n = 1 THEN InnerLeaves
    ELSE { Node("List", b, <<t>>) : b \in BOOLEAN, t \in TreesOfSize(n - 1) }
         \cup { Node("Struct", b, f) : b \in BOOLEAN, f \in ForestsOfSize(n - 1) }

ForestsOfSize(m) ==
    { <<t>> : t \in TreesOfSize(m) }
    \cup UNION { { <<t>> \o f : t \in TreesOfSize(k), f \in ForestsOfSize(m - k) }
                 : k \in 1..(m - 1) }

\* Every kind of list over a leaf.
ListSchemas ==
    { Node(tag, b, <<t>>) : tag \in ListTags, b \in BOOLEAN, t \in InnerLeaves }

\* Maps: a list level over a struct of key and value.
MapSchemas ==
    { Node("Map", b, << Node("Struct", FALSE, <<k, v>>) >>)
        : b \in BOOLEAN, k \in {Leaf("Utf8", "", "ByteArray", 0, FALSE)},
          v \in InnerLeaves }

\* Deeper schemas: structs whose fields own different numbers of columns,
\* lists of structs of lists, a failing field under two levels.
DeepSchemas ==
    LET i32 == Leaf("Int32", "", "Int32", 0, TRUE)
        str == Leaf("Utf8", "", "ByteArray", 0, FALSE)
        u32 == Leaf("UInt32", "", "Int64", 0, FALSE)
        bad == Leaf("UInt32", "", "ByteArray", 0, FALSE)
        big == Leaf("Decimal", "", "FixedLenByteArray", 17, TRUE)
    IN  UNION { { Node("Struct", b, << Node("Struct", ~b, <<i32, str>>), u32 >>),
                  Node("Struct", b, << u32, Node("Struct", ~b, <<i32, str>>), i32 >>),
                  Node("List", b, << Node("Struct", FALSE,
                                          << i32, Node("LargeList", ~b, <<str>>) >>) >>),
                  Node("FixedSizeList", FALSE, << Node("List", b, << Node("List", ~b, <<u32>>) >>) >>),
                  Node("Struct", b, << Node("List", TRUE, << Node("Struct", FALSE, <<bad, i32>>) >>), str >>),
                  Node("Struct", b, << big, Node("Map", FALSE, << Node("Struct", FALSE, <<str, bad>>) >>), i32 >>),
                  Node("Struct", b, << i32, Node("Struct", FALSE, <<str, big>>), bad >>),
                  Node("Map", b, << Node("Struct", FALSE,
                                         << str, Node("List", ~b, <<i32>>) >>) >>) }
              : b \in BOOLEAN }

Schemas ==
    AllLeaves \cup ListSchemas \cup MapSchemas \cup DeepSchemas
    \cup UNION { TreesOfSize(n) : n \in 2..MaxNodes }

Seeds == {0, 1}

(* ------------------------------------------------------------------ *)
(* The state machine: one top-level call and its consumer              *)
(* ------------------------------------------------------------------ *)
VARIABLES
    pc,                  \* "start", "decoding", "failed", "panicked", "ended", "dropped"
    columns,             \* page sources of the leaves, in pre-order
    types,               \* their physical types
    field,               \* the top-level logical field
    num_rows,
    chunk_size,          \* <<>> for None, <<n>> for Some(n)
    num_values,          \* value counts of the leaves
    is_parent_nullable,
    result,              \* what the top-level call returned
    pulls,               \* items pulled from the returned sequence
    item,                \* the item of the last pull
    decoded,             \* items each leaf decoder has been asked for, by column
    converted            \* conversion closures run so far

\* The state of one call of an array's get (daft-core array/ops/get.rs).
VARIABLES
    get_pc,              \* "idle", "ready", "returned", "panicked"
    get_self,            \* the array get is called on
    get_idx,             \* the index asked for
    get_ret,             \* what the call returned
    get_reads,           \* the bitmap and value slots the call read, in order
    get_origin           \* the fixed-size list the array was cast from, if any

get_vars == <<get_pc, get_self, get_idx, get_ret, get_reads, get_origin>>

\* The state of one use of TableStatistics (daft-stats table_stats.rs).
VARIABLES
    stats_pc,            \* "idle", "table", "built", "failed", "evaluated"
    stats_table,         \* the RecordBatch the statistics are built from
    stats_from,          \* the constructor used: "from_table", "from_stats_table"
    table_stats,         \* what the constructor returned
    stats_expr,          \* the expression evaluated
    stats_result         \* what eval_expression returned

stats_vars == <<stats_pc, stats_table, stats_from, table_stats, stats_expr, stats_result>>

\* The state of one CollectNode (daft-distributed pipeline_node/collect.rs).
VARIABLES
    collect_pc,          \* "idle", "args", "constructed", "started", "panicked"
    local_physical_plans,
    children,
    input_psets,
    execution_loop       \* the arguments of the spawned execution loop, if any

collect_vars == <<collect_pc, local_physical_plans, children, input_psets, execution_loop>>

\* The state of one ScanTaskSource (daft-local-execution sources/scan_task.rs).
VARIABLES
    scan_pc,             \* "idle", "args", "constructed"
    scan_tasks,          \* the estimate of each task: <<>> for None, <<rows>> for Some
    pushdowns_limit,     \* <<>> for None, <<limit>> for Some
    num_parallel_tasks

scan_vars == <<scan_pc, scan_tasks, pushdowns_limit, num_parallel_tasks>>

\* The state of one call of stream_scan_task (sources/scan_task.rs).
VARIABLES
    stream_pc,           \* "idle", "spawned", "returned"
    scan_task,           \* the ScanTask the call is given
    io_outcomes,         \* what the I/O layer answers: client and read, Ok or Err
    stream_ret,          \* what the call returned
    stream_effects       \* the I/O steps the call took, in order

stream_vars == <<stream_pc, scan_task, io_outcomes, stream_ret, stream_effects>>

\* The state of one method call on a PyRecordBatch (daft-recordbatch python.rs).
VARIABLES
    py_pc,               \* "idle", "ready", "returned"
    record_batch,        \* the RecordBatch the PyRecordBatch wraps
    py_call,             \* the method called and its arguments
    py_ret,              \* what the method returned
    py_invoked           \* the RecordBatch operations the method invoked, in order

py_vars == <<py_pc, record_batch, py_call, py_ret, py_invoked>>

nested_vars == <<pc, columns, types, field, num_rows, chunk_size, num_values,
                 is_parent_nullable, result, pulls, item, decoded, converted>>

vars == <<nested_vars, get_vars, stats_vars, collect_vars, scan_vars, stream_vars, py_vars>>

\* No get call is under way.
get_idle ==
    /\ get_pc = "idle"
    /\ get_self = <<>>
    /\ get_idx = 0
    /\ get_ret = <<>>
    /\ get_reads = <<>>
    /\ get_origin = <<>>

\* No statistics are being built.
stats_idle ==
    /\ stats_pc = "idle"
    /\ stats_table = <<>>
    /\ stats_from = ""
    /\ table_stats = <<>>
    /\ stats_expr = <<>>
    /\ stats_result = <<>>

\* No CollectNode is being built.
collect_idle ==
    /\ collect_pc = "idle"
    /\ local_physical_plans = <<>>
    /\ children = <<>>
    /\ input_psets = <<>>
    /\ execution_loop = <<>>

\* No ScanTaskSource is being built.
scan_idle ==
    /\ scan_pc = "idle"
    /\ scan_tasks = <<>>
    /\ pushdowns_limit = <<>>
    /\ num_parallel_tasks = 0

\* No stream_scan_task call is under way.
stream_idle ==
    /\ stream_pc = "idle"
    /\ scan_task = <<>>
    /\ io_outcomes = <<>>
    /\ stream_ret = <<>>
    /\ stream_effects = <<>>

\* No PyRecordBatch method is being called.
py_idle ==
    /\ py_pc = "idle"
    /\ record_batch = <<>>
    /\ py_call = <<>>
    /\ py_ret = <<>>
    /\ py_invoked = <<>>

\* What the decoding leaves alone.
others == <<get_vars, stats_vars, collect_vars, scan_vars, stream_vars, py_vars>>

inputs == <<columns, types, field, num_rows, chunk_size, num_values,
            is_parent_nullable>>

NoResult == [kind |-> "none", iter |-> NoIter, err |-> NoErr, pushed |-> <<>>,
             popped |-> NoPops, calls |-> <<>>]

Init ==
    \E s \in Schemas, seed \in Seeds :
        /\ pc = "start"
        /\ columns = ColumnsOf(s, seed)
        /\ types = TypesOf(s)
        /\ field = FieldOf(s)
        /\ num_rows \in 1..MaxRows
        /\ chunk_size \in {<<>>} \cup { <<c>> : c \in 1..(MaxRows - 1) }
        /\ num_values = NumValuesOf(s)
        /\ is_parent_nullable \in BOOLEAN
        /\ result = NoResult
        /\ pulls = 0
        /\ item = NoneItem
        /\ decoded = [i \in 1..Len(columns) |-> 0]
        /\ converted = 0
        /\ get_idle
        /\ stats_idle
        /\ collect_idle
        /\ scan_idle
        /\ stream_idle
        /\ py_idle

\* The caller makes the top-level call with an empty nesting context. The
\* call only builds decoders and adapters: no page is read, no closure run.
Dispatch ==
    /\ pc = "start"
    /\ result' = columns_to_iter_recursive(columns, types, field, <<>>, num_rows,
                                           chunk_size, num_values,
                                           is_parent_nullable, <<>>)
    /\ pc' = CASE result'.kind = "Ok" -> "decoding"
               [] result'.kind = "Err" -> "failed"
               [] OTHER -> "panicked"
    /\ UNCHANGED <<inputs, pulls, item, decoded, converted, others>>

\* The consumer pulls the next item of the returned sequence.
Pull ==
    /\ pc = "decoding"
    /\ pulls' = pulls + 1
    /\ item' = IterNext(result.iter, pulls + 1)
    /\ pc' = CASE item'.kind = "Ok" -> "decoding"
               [] item'.kind = "None" -> "ended"
               [] OTHER -> "panicked"
    /\ LET w == IterWork(result.iter, pulls + 1)
       IN  /\ decoded' = [i \in 1..Len(columns) |-> decoded[i] + Count(w.pulled, i)]
           /\ converted' = converted + w.conversions
    /\ UNCHANGED <<inputs, result, others>>

\* The consumer drops the sequence; nothing of the call survives it.
Drop ==
    /\ pc \in {"decoding", "ended"}
    /\ pc' = "dropped"
    /\ result' = NoResult
    /\ item' = NoneItem
    /\ UNCHANGED <<inputs, pulls, decoded, converted, others>>

Next == Dispatch \/ Pull \/ Drop

Spec == Init /\ [][Next]_vars

(* ------------------------------------------------------------------ *)
(* Views of the state used by the properties                           *)
(* ------------------------------------------------------------------ *)
\* The calls of columns_to_iter_recursive made by the top-level call.
Calls == { result.calls[i] : i \in 1..Len(result.calls) }

NestedTags == ListTags \cup {"Map", "Struct"}

\* Every sequence the returned sequence is built from, itself included.
RECURSIVE IterNodes(_)
IterNodes(iter) ==
    CASE iter.node = "leaf" -> {iter}
      [] iter.node = "map" -> {iter} \cup IterNodes(iter.iter)
      [] iter.node = "struct" ->
            {iter} \cup UNION { IterNodes(iter.iters[i]) : i \in 1..Len(iter.iters) }
      [] OTHER -> {}

Iters == IterNodes(result.iter)

\* Every array an array is built from, itself included.
RECURSIVE ArrayNodes(_)
ArrayNodes(array) ==
    IF array.kind = "none" THEN {}
    ELSE IF array.kind = "Flat" THEN {array}
    ELSE {array} \cup UNION { ArrayNodes(array.values[i]) : i \in 1..Len(array.values) }

\* All context entries pushed by the calls of one dispatch.
TotalPushes == SumSeq([i \in 1..Len(result.calls) |-> Len(result.calls[i].pushed)])

Pulled == pc = "decoding" /\ pulls >= 1 /\ item.kind = "Ok"

\* The arguments of a recorded call.
ArgsOf(c) ==
    Args(c.columns, c.types, c.field, c.init, c.num_rows, c.chunk_size,
         c.num_values, c.is_parent_nullable, c.path)

\* The sequence a recorded call returned.
IterOf(c) ==
    columns_to_iter_recursive(c.columns, c.types, c.field, c.init, c.num_rows,
                              c.chunk_size, c.num_values, c.is_parent_nullable,
                              c.path).iter

(* ------------------------------------------------------------------ *)
(* C1: nesting-context balance                                         *)
(* ------------------------------------------------------------------ *)
\* C1 as stated: for every item of a full decode started with an empty
\* context, the dispatcher has performed as many InitNested pushes as there
\* were pops on the item (by the leaf wrappers and the list, map and struct
\* assemblers).
C1_PushesEqualPops == Pulled => TotalPushes = item.pops

\* C1 amended: every top-level item comes with an empty NestedState; each
\* node of the schema is popped once per item, and each leaf decoder gets a
\* context with one entry per node on its path (a struct pushes its level
\* once per field, on a clone, and pops it once).
C1_NestedStateEmpty ==
    Pulled =>
        /\ item.nested = <<>>
        /\ item.pops = Len(result.calls)
        /\ \A it \in Iters : it.node = "leaf" => Len(it.init) = Len(it.path) + 1

\* A struct of two or more fields, one of them nested, has been pulled.
C1_Witness ==
    /\ Pulled
    /\ field.data_type.tag = "Struct"
    /\ Len(field.data_type.children) >= 2
    /\ \E c \in Calls : Len(c.path) >= 2
    /\ TotalPushes > item.pops

(* ------------------------------------------------------------------ *)
(* C2: struct fields get their own block of leaf columns               *)
(* ------------------------------------------------------------------ *)
\* The number of leaf columns owned by the fields before field i.
ColumnsBefore(fields, i) ==
    SumSeq([m \in 1..(i - 1) |-> n_columns(fields[m].data_type)])

Block(vec, fields, i) ==
    SubSeq(vec, ColumnsBefore(fields, i) + 1,
           ColumnsBefore(fields, i) + n_columns(fields[i].data_type))

\* C2: a struct call whose three vectors hold the leaves of its subtree in
\* pre-order hands every field it dispatches the contiguous block of
\* n_columns entries of that field's subtree, from the same positions of
\* all three vectors and in the same order, and hands the struct assembler
\* the fields' sequences in declaration order.
C2_StructBlocks ==
    \A c \in Calls :
        (/\ c.field.data_type.tag = "Struct"
         /\ Len(c.columns) = n_columns(c.field.data_type)
         /\ Len(c.types) = Len(c.columns)
         /\ Len(c.num_values) = Len(c.columns)) =>
            LET fields == c.field.data_type.children
            IN  /\ \A d \in Calls :
                      (Len(d.path) = Len(c.path) + 1 /\ Front(d.path) = c.path) =>
                          LET i == Last(d.path)
                          IN  /\ d.field = fields[i]
                              /\ d.columns = Block(c.columns, fields, i)
                              /\ d.types = Block(c.types, fields, i)
                              /\ d.num_values = Block(c.num_values, fields, i)
                /\ c.kind = "Ok" =>
                      LET it == IterOf(c)
                      IN  /\ it.node = "struct" /\ it.path = c.path
                          /\ Len(it.iters) = Len(fields)
                          /\ \A i \in 1..Len(fields) :
                                it.iters[i].path = Append(c.path, i)

\* A struct whose fields own different numbers of columns was dispatched.
C2_Witness ==
    /\ pc = "decoding"
    /\ \E c \in Calls :
          /\ c.field.data_type.tag = "Struct"
          /\ Len(c.field.data_type.children) = 3
          /\ n_columns(c.field.data_type.children[2].data_type) = 2
          /\ \E d \in Calls : d.path = Append(c.path, 2) /\ Len(d.columns) = 2

(* ------------------------------------------------------------------ *)
(* C3: one primitive level per leaf, pushed last and popped first      *)
(* ------------------------------------------------------------------ *)
\* The calls that take a leaf dispatch arm.
IsLeafArm(c) ==
    \/ to_physical_type(c.field.data_type) \in DOMAIN PhysArms \cup {"UInt32"}
    \/ c.field.data_type.tag \in {"Decimal", "Decimal256", "Dictionary"}


\* C3: every leaf dispatch arm pushes exactly one
\* InitNested::Primitive(field.is_nullable), as the last entry of the
\* context its decoder is built with, and every Ok item the arm yields has
\* lost exactly one entry of the decoder's NestedState, the innermost one.
C3_OnePrimitiveLevel ==
    /\ \A c \in Calls :
          IsLeafArm(c) =>
              /\ c.pushed = << InitNested("Primitive", c.field.is_nullable) >>
              /\ c.kind = "Ok" =>
                    LET it == IterOf(c)
                    IN  /\ it.node = "leaf" /\ it.path = c.path
                        /\ it.init = c.init \o c.pushed
    /\ Pulled =>
          \A it \in Iters :
              it.node = "leaf" =>
                  LET raw == NestedIterNext(it, pulls)
                      x == LeafNext(it, pulls)
                  IN  x.kind = "Ok" =>
                          /\ Last(raw.nested).tag = "Primitive"
                          /\ x.nested = Front(raw.nested)
                          /\ x.pops = 1

\* Leaves of both adapters and of a per-item conversion, under nesting,
\* have yielded an item.
C3_Witness ==
    /\ Pulled
    /\ \E it \in Iters : it.node = "leaf" /\ it.wrap = "remove_nested" /\ Len(it.init) >= 3
    /\ \E it \in Iters : it.node = "leaf" /\ it.wrap = "primitive" /\ it.init[1].nullable

(* ------------------------------------------------------------------ *)
(* C4: list and map arms push one list level and consume nothing       *)
(* ------------------------------------------------------------------ *)
\* C4: a List, LargeList, FixedSizeList or Map call pushes exactly one
\* InitNested::List(field.is_nullable), pops nothing from columns, types
\* or num_values, and passes the three vectors unchanged to the call on the
\* inner field; the map arm is the list arm with create_map in the place
\* of create_list.
C4_ListFrame ==
    \A c \in Calls :
        c.field.data_type.tag \in ListTags \cup {"Map"} =>
            /\ c.pushed = << InitNested("List", c.field.is_nullable) >>
            /\ c.popped = NoPops
            /\ \E d \in Calls :
                  /\ d.path = Append(c.path, 1)
                  /\ d.field = c.field.data_type.children[1]
                  /\ d.columns = c.columns
                  /\ d.types = c.types
                  /\ d.num_values = c.num_values
                  /\ d.init = c.init \o c.pushed
            /\ c.kind = "Ok" =>
                  LET it == IterOf(c)
                  IN  /\ it.node = "map" /\ it.path = c.path
                      /\ it.data_type = c.field.data_type
                      /\ it.assembler = IF c.field.data_type.tag = "Map"
                                        THEN "create_map" ELSE "create_list"
            /\ LET m == MapArm(ArgsOf(c))
                   l == ListArm(ArgsOf(c))
               IN  IF m.kind = "Ok"
                   THEN /\ l.kind = "Ok"
                        /\ m.iter.assembler = "create_map"
                        /\ l.iter.assembler = "create_list"
                        /\ [m EXCEPT !.iter.assembler = "create_list"] = l
                   ELSE m = l

\* A map with a list inside it was dispatched.
C4_Witness ==
    /\ pc = "decoding"
    /\ \E c \in Calls : c.field.data_type.tag = "Map" /\ Len(c.columns) = 2
    /\ \E c \in Calls : c.field.data_type.tag = "List" /\ c.init # <<>>

(* ------------------------------------------------------------------ *)
(* C5, C6: decimal width boundaries                                    *)
(* ------------------------------------------------------------------ *)
\* The calls on a field of the given type whose column is a
\* FixedLenByteArray.
FixedLenCalls(tag) ==
    { c \in Calls : /\ c.field.data_type.tag = tag
                    /\ c.types # <<>> /\ c.columns # <<>> /\ c.num_values # <<>>
                    /\ Last(c.types).physical_type = "FixedLenByteArray" }

\* C5: a Decimal field over FixedLenByteArray(n) dispatches for every
\* n <= 16, and for every n > 16 returns an invalid-argument error before
\* any leaf column or value count is consumed.
C5_Decimal128Width ==
    \A c \in FixedLenCalls("Decimal") :
        /\ Last(c.types).n <= 16 => c.kind = "Ok"
        /\ Last(c.types).n > 16 =>
              /\ c.kind = "Err"
              /\ c.err.class = "InvalidArgument"
              /\ c.popped.columns = 0
              /\ c.popped.num_values = 0

\* A Decimal over FixedLenByteArray(17) was refused.
C5_Witness ==
    /\ pc = "failed"
    /\ field.data_type.tag = "Decimal"
    /\ Last(types).physical_type = "FixedLenByteArray"
    /\ Last(types).n = 17

\* C6: a Decimal256 field over FixedLenByteArray(n) dispatches for every
\* n <= 32 and returns an invalid-argument error for every n > 32; n <= 16
\* is converted by convert_i128 and widened to 256 bits, 16 < n <= 32 is
\* converted by convert_i256.
C6_Decimal256Width ==
    /\ \A c \in FixedLenCalls("Decimal256") :
          LET n == Last(c.types).n
          IN  /\ n <= 32 =>
                    /\ c.kind = "Ok"
                    /\ LET it == IterOf(c)
                       IN  /\ it.node = "leaf" /\ it.path = c.path /\ it.n = n
                           /\ it.decoder = "fixed_size_binary::NestedIter"
                           /\ it.wrap = IF n <= 16 THEN "i256_of_convert_i128"
                                        ELSE "convert_i256"
              /\ n > 32 => c.kind = "Err" /\ c.err.class = "InvalidArgument"
    /\ (Pulled /\ field.data_type.tag = "Decimal256"
        /\ Last(types).physical_type = "FixedLenByteArray") =>
          LET n == Last(types).n
              raw == NestedIterNext(result.iter, pulls).array.values
          IN  \A i \in 1..item.array.len :
                  /\ Len(item.array.values[i].bytes) = 32
                  /\ item.array.values[i] =
                        IF n <= 16
                        THEN AsCast(convert_i128(raw[i].bytes, n), "i256")
                        ELSE convert_i256(raw[i].bytes)

\* A Decimal256 over FixedLenByteArray(33) was refused.
C6_Witness ==
    /\ pc = "failed"
    /\ field.data_type.tag = "Decimal256"
    /\ Last(types).physical_type = "FixedLenByteArray"
    /\ Last(types).n = 33

(* ------------------------------------------------------------------ *)
(* C7: UInt32 over Int32 and over Int64                                *)
(* ------------------------------------------------------------------ *)
\* The first row of the chunk of the last pull.
ChunkBase == (pulls - 1) * ChunkRows(num_rows, chunk_size, 1)

\* C7: for a UInt32 field, the cast used over physical Int32 and the cast
\* used over physical Int64 give the same u32 for stored values that stand
\* for the same number: whichever of the two the column is stored in, the
\* decoded values are the numbers the writer held.
C7_UInt32Converges ==
    (Pulled /\ field.data_type.tag = "UInt32") =>
        /\ result.iter.cast = IF Last(types).physical_type = "Int32"
                              THEN "i32_as_u32" ELSE "i64_as_u32"
        /\ \A i \in 1..item.array.len :
              LET u == Underlying(columns[1], ChunkBase + i)
              IN  /\ item.array.values[i] = u
                  /\ Cast("i32_as_u32", StoreU32("Int32", u)) = u
                  /\ Cast("i64_as_u32", StoreU32("Int64", u)) = u

\* A UInt32 column stored as Int64 has yielded a number of 2^31 or more.
C7_Witness ==
    /\ Pulled
    /\ field.data_type.tag = "UInt32"
    /\ Last(types).physical_type = "Int64"
    /\ \E i \in 1..item.array.len : item.array.values[i].bytes[1] >= 128

(* ------------------------------------------------------------------ *)
(* C8: the not-yet-implemented cases                                   *)
(* ------------------------------------------------------------------ *)
\* The dictionary value types the dictionary leaf has a decoder for.
SupportedDictionaryValues ==
    {"UInt8", "UInt16", "UInt32", "Int8", "Int16", "Int32", "Date32", "Time32",
     "IntervalYearMonth", "Int64", "Date64", "Time64", "Duration", "Float32",
     "Float64", "Utf8", "Binary", "LargeUtf8", "LargeBinary", "FixedSizeBinary"}

\* The cases C8 lists, for a call that is not on a list, map or struct.
NyiCase(c) ==
    LET tag == c.field.data_type.tag
        physical_type == Last(c.types).physical_type
    IN  \/ tag = "UInt32" /\ physical_type \notin {"Int32", "Int64"}
        \/ /\ tag \in {"Decimal", "Decimal256"}
           /\ physical_type \notin {"Int32", "Int64", "FixedLenByteArray"}
        \/ tag = "Dictionary" /\ c.field.data_type.value \notin SupportedDictionaryValues
        \/ ~IsLeafArm(c)

\* C8: a call returns a not-yet-implemented error of its own exactly for
\* a UInt32 field over a physical type other than Int32 and Int64, a
\* Decimal or Decimal256 field over one other than Int32, Int64 and
\* FixedLenByteArray, a Dictionary field with an unsupported value type, and
\* a logical type no arm matches; never an invalid-argument error. The
\* top-level call returns not-yet-implemented exactly when one of the
\* fields it dispatched is such a case.
C8_NotYetImplemented ==
    /\ \A c \in Calls :
          (c.field.data_type.tag \notin NestedTags /\ c.types # <<>>) =>
              /\ NyiCase(c) <=> (c.kind = "Err" /\ c.err.class = "nyi")
              /\ NyiCase(c) => c.err.class # "InvalidArgument"
    /\ pc # "start" =>
          ((result.kind = "Err" /\ result.err.class = "nyi") <=>
              \E c \in Calls : /\ c.field.data_type.tag \notin NestedTags
                               /\ c.types # <<>>
                               /\ NyiCase(c))

\* A UInt32 field stored as a byte array was refused.
C8_Witness ==
    /\ pc = "failed"
    /\ field.data_type.tag = "UInt32"
    /\ Last(types).physical_type = "ByteArray"
    /\ result.err = Error("nyi", "ByteArray")

(* ------------------------------------------------------------------ *)
(* C9: a failing descendant fails the top-level call                   *)
(* ------------------------------------------------------------------ *)
\* C9: if any call made under the top-level call returns an error, the
\* top-level call returns that error and no sequence.
C9_NoPartialResult ==
    \A c \in Calls :
        c.kind = "Err" =>
            /\ pc = "failed"
            /\ result.kind = "Err"
            /\ result.err = c.err
            /\ result.iter = NoIter

\* A field two levels down failed after a sibling struct field had been
\* dispatched.
C9_Witness ==
    /\ pc = "failed"
    /\ field.data_type.tag = "Struct"
    /\ \E c \in Calls : c.kind = "Ok" /\ Len(c.path) = 1
    /\ \E c \in Calls : c.kind = "Err" /\ Len(c.path) >= 2 /\ IsLeafArm(c)

(* ------------------------------------------------------------------ *)
(* C10: list offsets                                                   *)
(* ------------------------------------------------------------------ *)
\* C10: every List or LargeList array the list assembler produces has
\* non-decreasing offsets, the last of which is the length of its child
\* values array.
C10_ListOffsets ==
    Pulled =>
        \A a \in ArrayNodes(item.array) :
            a.kind \in {"List", "LargeList"} =>
                /\ Len(a.offsets) = a.len + 1
                /\ \A i \in 1..a.len : a.offsets[i] <= a.offsets[i + 1]
                /\ Last(a.offsets) = a.values[1].len

\* A list of lists came out with a non-empty row after the first.
C10_Witness ==
    /\ Pulled
    /\ item.array.kind \in {"List", "LargeList"}
    /\ item.array.len >= 2
    /\ item.array.offsets[2] > 0
    /\ item.array.values[1].kind \in {"List", "LargeList"}

(* ------------------------------------------------------------------ *)
(* C11: one chunking for every field                                   *)
(* ------------------------------------------------------------------ *)
\* The leaf sequences a sequence is built from.
LeafIters(iter) == { it \in IterNodes(iter) : it.node = "leaf" }

\* C11: every call made under the top-level call, and every leaf decoder
\* built by it, has the num_rows and the chunk_size of the top-level call;
\* so the field sequences of every struct end at the same pull, and the
\* field arrays of a top-level struct item all have the rows of the chunk.
C11_SharedChunking ==
    /\ \A c \in Calls : c.num_rows = num_rows /\ c.chunk_size = chunk_size
    /\ \A it \in Iters :
          /\ it.node = "leaf" => it.num_rows = num_rows /\ it.chunk_size = chunk_size
          /\ it.node = "struct" =>
                \A i, k \in 1..Len(it.iters) : \A j \in 1..(MaxRows + 1) :
                    (IterNext(it.iters[i], j).kind = "None")
                        <=> (IterNext(it.iters[k], j).kind = "None")
    /\ (Pulled /\ field.data_type.tag = "Struct") =>
          \A i \in 1..Len(item.array.values) :
              item.array.values[i].len = ChunkRows(num_rows, chunk_size, pulls)

\* The second chunk of a struct of two or more fields, one of them nested,
\* has been pulled.
C11_Witness ==
    /\ Pulled
    /\ pulls >= 2
    /\ chunk_size # <<>>
    /\ field.data_type.tag = "Struct"
    /\ Len(field.data_type.children) >= 2
    /\ \E c \in Calls : Len(c.path) >= 2

(* ------------------------------------------------------------------ *)
(* C12: is_parent_nullable                                             *)
(* ------------------------------------------------------------------ *)
\* The field at a position of the schema tree under f.
RECURSIVE FieldAt(_, _)
FieldAt(f, path) ==
    IF path = <<>> THEN f
    ELSE FieldAt(f.data_type.children[path[1]], SubSeq(path, 2, Len(path)))

\* Some strict ancestor of the field at path is nullable.
AncestorNullable(path) ==
    \E k \in 0..(Len(path) - 1) : FieldAt(field, SubSeq(path, 1, k)).is_nullable

\* C12: when the top-level call is made with is_parent_nullable = false, a
\* leaf decoder is handed is_parent_nullable = true exactly when a strict
\* ancestor of its field is nullable; the leaf's own nullability plays no
\* part. (The dictionary decoders are handed no flag at all.)
C12_ParentNullable ==
    ~is_parent_nullable =>
        /\ \A c \in Calls :
              (c.field.data_type.tag \notin NestedTags) =>
                  (c.is_parent_nullable <=> AncestorNullable(c.path))
        /\ \A it \in Iters :
              (it.node = "leaf" /\ it.is_parent_nullable # <<>>) =>
                  it.is_parent_nullable = <<AncestorNullable(it.path)>>

\* Two levels down, a non-nullable leaf under a non-nullable parent got the
\* flag from a nullable ancestor further up.
C12_Witness ==
    /\ ~is_parent_nullable
    /\ pc = "decoding"
    /\ \E it \in Iters :
          /\ it.node = "leaf"
          /\ Len(it.path) >= 2
          /\ it.is_parent_nullable = <<TRUE>>
          /\ ~FieldAt(field, it.path).is_nullable
          /\ ~FieldAt(field, SubSeq(it.path, 1, Len(it.path) - 1)).is_nullable

(* ------------------------------------------------------------------ *)
(* C13: the sequence is pull-driven                                    *)
(* ------------------------------------------------------------------ *)
\* The list, map and decimal conversion closures of a sequence.
Closures(iter) ==
    { it \in IterNodes(iter) :
         \/ it.node = "map"
         \/ it.node = "leaf" /\ it.wrap \notin {"primitive", "remove_nested"} }

\* C13: until the consumer pulls, no leaf decoder has been asked for an item
\* and no list, map or decimal conversion has run; after k pulls every leaf
\* decoder has been asked for at most k items and every conversion closure
\* has run at most k times.
C13_PullDriven ==
    /\ pulls = 0 => converted = 0 /\ \A i \in 1..Len(columns) : decoded[i] = 0
    /\ \A i \in 1..Len(columns) : decoded[i] <= pulls
    /\ pc = "decoding" => converted <= pulls * Cardinality(Closures(result.iter))

\* The first item of a sequence of two closures over two leaf decoders has
\* been pulled: each closure has run once, each decoder was asked once.
C13_Witness ==
    /\ Pulled
    /\ pulls = 1
    /\ Cardinality(Closures(result.iter)) >= 2
    /\ converted = Cardinality(Closures(result.iter))
    /\ Len(columns) >= 2
    /\ \A i \in 1..Len(columns) : decoded[i] = 1

(* ================================================================== *)
(* Array element access: daft-core array/ops/get.rs                    *)
(* ================================================================== *)
MaxLen == 3
MaxFixedLen == 2

\* No decoding is under way.
nested_idle ==
    /\ pc = "idle"
    /\ columns = <<>>
    /\ types = <<>>
    /\ field = <<>>
    /\ num_rows = 0
    /\ chunk_size = <<>>
    /\ num_values = <<>>
    /\ is_parent_nullable = FALSE
    /\ result = NoResult
    /\ pulls = 0
    /\ item = NoneItem
    /\ decoded = <<>>
    /\ converted = 0

\* Option<T>, and the object PythonArray::get returns in its place.
Some(x) == [kind |-> "Some", value |-> <<x>>]

None == [kind |-> "None"]

PyObject(x) == [kind |-> "PyObject", value |-> <<x>>]

\* panic!("Out of bounds: {} vs len: {}", idx, self.len())
OutOfBounds(idx, len) == [kind |-> "Panic", msg |-> "Out of bounds", idx |-> idx, len |-> len]

\* .unwrap() of a failed slice
UnwrapFailed == [kind |-> "Panic", msg |-> "unwrap", idx |-> 0, len |-> 0]

\* What a call did: the value it returned (or the panic) and the slots of
\* the validity bitmap and of the values it read, in order.
Returned(ret, reads) == [ret |-> ret, reads |-> reads]

ReadValidity(idx) == [what |-> "validity", idx |-> idx]

ReadValue(idx) == [what |-> "value", idx |-> idx]

\* An array: validity is <<>> for no bitmap, else <<bits>>; values are the
\* elements of a flat array; a fixed-size list has fixed_len and a flat
\* child, a list has offsets and a flat child, a logical array (and a map)
\* wraps a physical one.
Array(kind, values, validity) ==
    [kind |-> kind, values |-> values, validity |-> validity, fixed_len |-> 0,
     offsets |-> <<>>, flat_child |-> <<>>, physical |-> <<>>]

FixedSizeListArray(fixed_len, flat_child, validity) ==
    [kind |-> "FixedSizeListArray", values |-> <<>>, validity |-> validity,
     fixed_len |-> fixed_len, offsets |-> <<>>, flat_child |-> flat_child,
     physical |-> <<>>]

ListArray(offsets, flat_child, validity) ==
    [kind |-> "ListArray", values |-> <<>>, validity |-> validity,
     fixed_len |-> 0, offsets |-> offsets, flat_child |-> flat_child,
     physical |-> <<>>]

LogicalArray(kind, physical) ==
    [kind |-> kind, values |-> <<>>, validity |-> <<>>, fixed_len |-> 0,
     offsets |-> <<>>, flat_child |-> <<>>, physical |-> <<physical>>]

\* self.len()
RECURSIVE ArrayLen(_)
ArrayLen(self) ==
    CASE self.kind = "FixedSizeListArray" -> Len(self.flat_child) \div self.fixed_len
      [] self.kind = "ListArray" -> Len(self.offsets) - 1
      [] self.physical # <<>> -> ArrayLen(self.physical[1])
      [] OTHER -> Len(self.values)

\* validity().is_none_or(|validity| validity.get_bit(idx)): the bitmap is
\* read only if there is one.
IsValid(self, idx) == self.validity = <<>> \/ self.validity[1][idx + 1]

ValidityReads(self, idx) ==
    IF self.validity = <<>> THEN <<>> ELSE <<ReadValidity(idx)>>

\* flat_child.slice(start, end): the elements start..end-1, an error if the
\* range does not lie in the child.
Slice(flat_child, start, end) ==
    IF start <= end /\ end <= Len(flat_child)
    THEN [kind |-> "Ok", series |-> SubSeq(flat_child, start + 1, end)]
    ELSE [kind |-> "Err", series |-> <<>>]

\* A DataArray::get that takes every slot for valid.
DataArray_get_IgnoreValidity(self, idx) ==
    IF ~(idx < ArrayLen(self))
    THEN Returned(OutOfBounds(idx, ArrayLen(self)), <<>>)
    ELSE Returned(Some(self.values[idx + 1]), <<ReadValue(idx)>>)

\* DataArray<T>::get
DataArray_get(self, idx) ==
    IF ~(idx < ArrayLen(self))
    THEN Returned(OutOfBounds(idx, ArrayLen(self)), <<>>)
    ELSE LET is_valid == IsValid(self, idx)
         IN  IF is_valid
             THEN Returned(Some(self.values[idx + 1]),
                           ValidityReads(self, idx) \o <<ReadValue(idx)>>)
             ELSE Returned(None, ValidityReads(self, idx))

\* A generated get that looks at the bitmap before it checks the index.
impl_array_arrow_get_CheckLast(self, idx) ==
    LET reads == ValidityReads(self, idx)
    IN  IF idx >= ArrayLen(self)
        THEN Returned(OutOfBounds(idx, ArrayLen(self)), reads)
        ELSE IF IsValid(self, idx)
             THEN Returned(Some(self.values[idx + 1]), reads \o <<ReadValue(idx)>>)
             ELSE Returned(None, reads)

\* impl_array_arrow_get!: Utf8Array, BooleanArray, BinaryArray,
\* FixedSizeBinaryArray, DateArray, TimeArray, DurationArray, IntervalArray,
\* TimestampArray.
impl_array_arrow_get(self, idx) ==
    IF idx >= ArrayLen(self)
    THEN Returned(OutOfBounds(idx, ArrayLen(self)), <<>>)
    ELSE LET is_valid == IsValid(self, idx)
         IN  IF is_valid
             THEN Returned(Some(self.values[idx + 1]),
                           ValidityReads(self, idx) \o <<ReadValue(idx)>>)
             ELSE Returned(None, ValidityReads(self, idx))

\* NullArray::get
NullArray_get(self, idx) ==
    IF ~(idx < ArrayLen(self))
    THEN Returned(OutOfBounds(idx, ArrayLen(self)), <<>>)
    ELSE Returned(None, <<>>)

\* ExtensionArray::get: a scalar of the element.
ExtensionArray_get(self, idx) ==
    IF ~(idx < ArrayLen(self))
    THEN Returned(OutOfBounds(idx, ArrayLen(self)), <<>>)
    ELSE LET is_valid == IsValid(self, idx)
         IN  IF is_valid
             THEN Returned(Some(self.values[idx + 1]),
                           ValidityReads(self, idx) \o <<ReadValue(idx)>>)
             ELSE Returned(None, ValidityReads(self, idx))

\* PythonArray::get: the stored object, or a new reference to Python's
\* None for a slot that is not valid; there is no Option.
PythonArray_get(self, idx) ==
    IF ~(idx < ArrayLen(self))
    THEN Returned(OutOfBounds(idx, ArrayLen(self)), <<>>)
    ELSE LET valid == IsValid(self, idx)
         IN  IF valid
             THEN Returned(PyObject(self.values[idx + 1]),
                           ValidityReads(self, idx) \o <<ReadValue(idx)>>)
             ELSE Returned(PyObject("None"), ValidityReads(self, idx))

\* The rows before idx that are valid.
ValidBefore(self, idx) == Cardinality({ i \in 0..(idx - 1) : IsValid(self, i) })

\* A FixedSizeListArray::get over a child that stores no slots for null
\* rows.
FixedSizeListArray_get_Compact(self, idx) ==
    IF ~(idx < ArrayLen(self))
    THEN Returned(OutOfBounds(idx, ArrayLen(self)), <<>>)
    ELSE LET valid == IsValid(self, idx)
             start == ValidBefore(self, idx) * self.fixed_len
             sl == Slice(self.flat_child, start, start + self.fixed_len)
         IN  IF valid
             THEN IF sl.kind = "Ok"
                  THEN Returned(Some(sl.series), ValidityReads(self, idx)
                           \o [i \in 1..self.fixed_len |-> ReadValue(start + i - 1)])
                  ELSE Returned(UnwrapFailed, ValidityReads(self, idx))
             ELSE Returned(None, ValidityReads(self, idx))

\* FixedSizeListArray::get
FixedSizeListArray_get(self, idx) ==
    IF ~(idx < ArrayLen(self))
    THEN Returned(OutOfBounds(idx, ArrayLen(self)), <<>>)
    ELSE LET fixed_len == self.fixed_len
             valid == IsValid(self, idx)
             sl == Slice(self.flat_child, idx * fixed_len, (idx + 1) * fixed_len)
         IN  IF valid
             THEN IF sl.kind = "Ok"
                  THEN Returned(Some(sl.series), ValidityReads(self, idx)
                           \o [i \in 1..fixed_len |-> ReadValue(idx * fixed_len + i - 1)])
                  ELSE Returned(UnwrapFailed, ValidityReads(self, idx))
             ELSE Returned(None, ValidityReads(self, idx))

\* ListArray::get
ListArray_get(self, idx) ==
    IF ~(idx < ArrayLen(self))
    THEN Returned(OutOfBounds(idx, ArrayLen(self)), <<>>)
    ELSE LET valid == IsValid(self, idx)
         IN  IF valid
             THEN LET start == self.offsets[idx + 1]
                      end == self.offsets[idx + 2]
                      sl == Slice(self.flat_child, start, end)
                  IN  IF sl.kind = "Ok"
                      THEN Returned(Some(sl.series), ValidityReads(self, idx)
                               \o [i \in 1..(end - start) |-> ReadValue(start + i - 1)])
                      ELSE Returned(UnwrapFailed, ValidityReads(self, idx))
             ELSE Returned(None, ValidityReads(self, idx))

\* LogicalArrayImpl<L, FixedSizeListArray>::get
LogicalArrayImpl_get(self, idx) == FixedSizeListArray_get(self.physical[1], idx)

\* MapArray::get
MapArray_get(self, idx) == ListArray_get(self.physical[1], idx)

\* The array types the macro generates a get for.
ArrowGetArrays ==
    {"Utf8Array", "BooleanArray", "BinaryArray", "FixedSizeBinaryArray", "DateArray",
     "TimeArray", "DurationArray", "IntervalArray", "TimestampArray"}

\* self.get(idx), by the type of self.
get(self, idx) ==
    CASE self.kind = "DataArray" -> DataArray_get(self, idx)
      [] self.kind \in ArrowGetArrays -> impl_array_arrow_get(self, idx)
      [] self.kind = "LogicalFixedSizeListArray" -> LogicalArrayImpl_get(self, idx)
      [] self.kind = "NullArray" -> NullArray_get(self, idx)
      [] self.kind = "ExtensionArray" -> ExtensionArray_get(self, idx)
      [] self.kind = "PythonArray" -> PythonArray_get(self, idx)
      [] self.kind = "FixedSizeListArray" -> FixedSizeListArray_get(self, idx)
      [] self.kind = "ListArray" -> ListArray_get(self, idx)
      [] self.kind = "MapArray" -> MapArray_get(self, idx)

\* A fixed-size list cast to a list: the same flat child and validity, the
\* offsets of rows of fixed_len slots each.
CastToList(self) ==
    ListArray([i \in 1..(ArrayLen(self) + 1) |-> (i - 1) * self.fixed_len],
              self.flat_child, self.validity)

(* ------------------------------------------------------------------ *)
(* Arrays to call get on                                               *)
(* ------------------------------------------------------------------ *)
\* No bitmap, or a bitmap of n bits.
Validities(n) == {<<>>} \cup { <<b>> : b \in [1..n -> BOOLEAN] }

\* The flat child 0, 1, ..., n-1.
Iota(n) == [i \in 1..n |-> i - 1]

\* Offsets of the rows of the given lengths.
OffsetsOf(lens) == [i \in 1..(Len(lens) + 1) |-> SumSeq(SubSeq(lens, 1, i - 1))]

FlatArrays ==
    { Array(kind, Iota(n), v) :
        kind \in {"DataArray", "ExtensionArray", "NullArray"} \cup ArrowGetArrays,
        n \in 0..MaxLen, v \in Validities(MaxLen) }

\* Python objects: an object, or Python's None stored as an element.
PythonArrays ==
    UNION { { Array("PythonArray", values, v) : values \in [1..n -> {"obj", "None"}],
                                                 v \in Validities(n) } : n \in 0..MaxLen }

FixedSizeListArrays ==
    UNION { { FixedSizeListArray(k, Iota(n * k), v) : v \in Validities(n) } :
              n \in 0..MaxLen, k \in 1..MaxFixedLen }

ListArrays ==
    UNION { { ListArray(OffsetsOf(lens), Iota(SumSeq(lens)), v) :
                 lens \in [1..n -> 0..MaxFixedLen], v \in Validities(n) } :
              n \in 0..MaxLen }

Arrays ==
    { a \in FlatArrays : a.validity = <<>> \/ Len(a.validity[1]) = Len(a.values) }
        \cup PythonArrays \cup FixedSizeListArrays \cup ListArrays
        \cup { LogicalArray("LogicalFixedSizeListArray", a) : a \in FixedSizeListArrays }
        \cup { LogicalArray("MapArray", a) : a \in ListArrays }

(* ------------------------------------------------------------------ *)
(* The state machine of get                                            *)
(* ------------------------------------------------------------------ *)
GetInit ==
    /\ nested_idle
    /\ stream_idle
    /\ py_idle
    /\ stats_idle
    /\ collect_idle
    /\ scan_idle
    /\ get_pc = "ready"
    /\ get_self \in Arrays
    /\ get_idx \in 0..MaxLen
    /\ get_ret = <<>>
    /\ get_reads = <<>>
    /\ get_origin = <<>>

\* The call self.get(idx).
Get ==
    /\ get_pc = "ready"
    /\ LET r == get(get_self, get_idx)
       IN  /\ get_ret' = r.ret
           /\ get_reads' = r.reads
           /\ get_pc' = IF r.ret.kind = "Panic" THEN "panicked" ELSE "returned"
    /\ UNCHANGED <<get_self, get_idx, get_origin, nested_vars, stream_vars, py_vars, stats_vars, collect_vars, scan_vars>>

\* arr.cast(&DataType::List(..)) on a fixed-size list, before get is called
\* on the result.
Cast_FixedSizeList ==
    /\ get_pc = "ready"
    /\ get_self.kind = "FixedSizeListArray"
    /\ get_origin = <<>>
    /\ get_origin' = <<get_self>>
    /\ get_self' = CastToList(get_self)
    /\ UNCHANGED <<get_pc, get_idx, get_ret, get_reads, nested_vars, stream_vars, py_vars, stats_vars, collect_vars, scan_vars>>

GetNext == Get \/ Cast_FixedSizeList

SpecGet == GetInit /\ [][GetNext]_vars

InBounds == get_idx < ArrayLen(get_self)

\* The array that holds the validity and the elements of get_self.
Physical == IF get_self.physical # <<>> THEN get_self.physical[1] ELSE get_self

\* The slot idx has a bitmap bit and the bit is unset.
BitUnset == Physical.validity # <<>> /\ ~Physical.validity[1][get_idx + 1]

\* The element at position idx.
Element ==
    CASE Physical.kind = "FixedSizeListArray" ->
            SubSeq(Physical.flat_child, get_idx * Physical.fixed_len + 1,
                   (get_idx + 1) * Physical.fixed_len)
      [] Physical.kind = "ListArray" ->
            SubSeq(Physical.flat_child, Physical.offsets[get_idx + 1] + 1,
                   Physical.offsets[get_idx + 2])
      [] OTHER -> Physical.values[get_idx + 1]

\* The call returned no element: Option's None, or Python's None.
ReturnedNone ==
    \/ get_ret.kind = "None"
    \/ get_ret.kind = "PyObject" /\ get_ret.value = <<"None">>

(* ------------------------------------------------------------------ *)
(* C14: get and the validity bitmap                                    *)
(* ------------------------------------------------------------------ *)
\* C14 as stated: for every array type with a get and every in-bounds idx,
\* get returns None exactly when the array has a bitmap whose bit idx is
\* unset (a NullArray: always), and the element at idx otherwise.
C14_NoneIffUnset ==
    (get_pc = "returned" /\ InBounds) =>
        IF get_self.kind = "NullArray" THEN get_ret = None
        ELSE /\ ReturnedNone <=> BitUnset
             /\ ~ReturnedNone => get_ret.value = <<Element>>

\* C14 amended: every get that returns an Option returns None exactly when
\* the array has a bitmap whose bit idx is unset (a NullArray: always) and
\* Some of the element at idx otherwise; PythonArray::get returns the stored
\* object for a valid slot and Python's None for a slot whose bit is unset.
C14_OptionIffUnset ==
    (get_pc = "returned" /\ InBounds) =>
        CASE get_self.kind = "NullArray" -> get_ret = None
          [] get_self.kind = "PythonArray" ->
                get_ret = PyObject(IF BitUnset THEN "None" ELSE Element)
          [] OTHER ->
                /\ get_ret.kind \in {"None", "Some"}
                /\ get_ret = None <=> BitUnset
                /\ get_ret # None => get_ret = Some(Element)

\* A flat array with a bitmap returned Some for a set bit after a slot
\* whose bit is unset.
C14_Witness ==
    /\ get_pc = "returned"
    /\ get_self.kind = "DataArray"
    /\ get_self.validity # <<>>
    /\ get_idx >= 1
    /\ ~get_self.validity[1][get_idx]
    /\ get_ret = Some(get_idx)

(* ------------------------------------------------------------------ *)
(* C15: the slice a list get returns                                   *)
(* ------------------------------------------------------------------ *)
\* C15: for a valid in-bounds row, FixedSizeListArray::get returns the k
\* child slots [idx*k, (idx+1)*k) (null rows before it take up k slots
\* each), ListArray::get returns the child slots [offsets[idx],
\* offsets[idx+1]), and a fixed-size list cast to a list returns for the row
\* what the fixed-size list returned.
C15_ListSlices ==
    (get_pc = "returned" /\ InBounds /\ ~BitUnset) =>
        /\ get_self.kind = "FixedSizeListArray" =>
              /\ get_ret = Some([i \in 1..get_self.fixed_len |->
                                  get_self.flat_child[get_idx * get_self.fixed_len + i]])
              /\ Len(get_ret.value[1]) = get_self.fixed_len
        /\ get_self.kind = "ListArray" =>
              get_ret = Some([i \in 1..(get_self.offsets[get_idx + 2]
                                          - get_self.offsets[get_idx + 1]) |->
                                  get_self.flat_child[get_self.offsets[get_idx + 1] + i]])
        /\ get_origin # <<>> =>
              get_ret = FixedSizeListArray_get(get_origin[1], get_idx).ret

\* A fixed-size list with a null row was cast to a list, and the row after
\* the null row was returned.
C15_Witness ==
    /\ get_pc = "returned"
    /\ get_origin # <<>>
    /\ get_origin[1].fixed_len = 2
    /\ get_origin[1].validity # <<>>
    /\ get_idx = 2
    /\ ~get_origin[1].validity[1][2]
    /\ get_ret = Some(<<4, 5>>)

(* ------------------------------------------------------------------ *)
(* C16: the bounds check comes first                                   *)
(* ------------------------------------------------------------------ *)
\* C16: a get with idx >= len() panics with the out-of-bounds message
\* without having read the bitmap or a value; no get reads a slot outside
\* the array.
C16_BoundsFirst ==
    /\ (get_pc \in {"returned", "panicked"} /\ ~InBounds) =>
          /\ get_pc = "panicked"
          /\ get_ret = OutOfBounds(get_idx, ArrayLen(get_self))
          /\ get_reads = <<>>
    /\ get_pc = "returned" =>
          \A i \in 1..Len(get_reads) :
              IF get_reads[i].what = "validity"
              THEN get_reads[i].idx < ArrayLen(get_self)
              ELSE get_reads[i].idx < Len(Physical.values) + Len(Physical.flat_child)

\* An array with a bitmap was asked for the slot one past its end.
C16_Witness ==
    /\ get_pc = "panicked"
    /\ get_self.kind \in ArrowGetArrays
    /\ get_self.validity # <<>>
    /\ get_idx = ArrayLen(get_self)
    /\ get_idx >= 1

(* ================================================================== *)
(* Table statistics: daft-stats table_stats.rs                         *)
(* ================================================================== *)
MaxTableRows == 3

\* A RecordBatch: column names (distinct) and one series of values each.
RecordBatch(names, series) == [names |-> names, series |-> series]

\* table.len()
TableLen(table) == IF table.series = <<>> THEN 0 ELSE Len(table.series[1])

\* table.get_column(&name).unwrap()
get_column(table, name) ==
    table.series[CHOOSE i \in 1..Len(table.names) : table.names[i] = name]

\* ColumnRangeStatistics: no range, or a lower and an upper bound, each a
\* series of one value.
Missing == [kind |-> "Missing", lower |-> <<>>, upper |-> <<>>]

Loaded(lower, upper) == [kind |-> "Loaded", lower |-> lower, upper |-> upper]

\* ColumnRangeStatistics::new(Some(lower), Some(upper))
ColumnRangeStatistics_new(lower, upper) == Loaded(lower, upper)

SeriesMin(col) == CHOOSE x \in { col[i] : i \in 1..Len(col) } :
                      \A i \in 1..Len(col) : x <= col[i]

SeriesMax(col) == CHOOSE x \in { col[i] : i \in 1..Len(col) } :
                      \A i \in 1..Len(col) : x >= col[i]

\* ColumnRangeStatistics::from_series: the minimum and the maximum.
from_series(col) == Loaded(<<SeriesMin(col)>>, <<SeriesMax(col)>>)

\* DaftResult<TableStatistics>
StatsOk(cols) == [kind |-> "Ok", err |-> "", columns |-> cols]

StatsErr(err) == [kind |-> "Err", err |-> err, columns |-> <<>>]

\* IndexMap::insert: a new key goes last, a known key keeps its place.
IndexMapInsert(map, name, stats) ==
    IF \E i \in 1..Len(map) : map[i].name = name
    THEN [i \in 1..Len(map) |->
             IF map[i].name = name THEN [name |-> name, stats |-> stats] ELSE map[i]]
    ELSE Append(map, [name |-> name, stats |-> stats])

\* IndexMap::get
IndexMapGet(map, name) ==
    IF \E i \in 1..Len(map) : map[i].name = name
    THEN <<(CHOOSE e \in { map[i] : i \in 1..Len(map) } : e.name = name).stats>>
    ELSE <<>>

\* The loop of from_stats_table over table.column_names(), from the i-th
\* name on.
RECURSIVE StatsTableColumns(_, _, _)
StatsTableColumns(table, i, cols) ==
    IF i > Len(table.names) THEN StatsOk(cols)
    ELSE LET name == table.names[i]
             col == get_column(table, name)
             lower == Slice(col, 0, 1)
             upper == Slice(col, 1, 2)
         IN  IF lower.kind # "Ok" \/ upper.kind # "Ok" THEN StatsErr("ValueError")
             ELSE StatsTableColumns(table, i + 1,
                      IndexMapInsert(cols, name,
                          ColumnRangeStatistics_new(lower.series, upper.series)))

\* A from_stats_table that takes any table of two rows or more.
from_stats_table_AtLeastTwo(table) ==
    IF TableLen(table) < 2 THEN StatsErr("ValueError")
    ELSE StatsTableColumns(table, 1, <<>>)

\* TableStatistics::from_stats_table
from_stats_table(table) ==
    IF TableLen(table) # 2 THEN StatsErr("ValueError")
    ELSE StatsTableColumns(table, 1, <<>>)

\* The loop of from_table over table.column_names().
RECURSIVE TableColumns(_, _, _)
TableColumns(table, i, cols) ==
    IF i > Len(table.names) THEN cols
    ELSE LET name == table.names[i]
             col == get_column(table, name)
         IN  TableColumns(table, i + 1, IndexMapInsert(cols, name, from_series(col)))

\* TableStatistics::from_table
from_table(table) == StatsOk(TableColumns(table, 1, <<>>))

\* The comparisons of two ranges give a range of booleans, Missing if either
\* side is. For ==: the lower bound says the two ranges overlap exactly, the
\* upper bound that they overlap at all.
Compare(lhs, rhs, always, sometimes) ==
    IF lhs.kind = "Missing" \/ rhs.kind = "Missing" THEN Missing
    ELSE Loaded(<<always>>, <<sometimes>>)

equal(lhs, rhs) ==
    Compare(lhs, rhs,
            lhs.lower = rhs.lower /\ lhs.upper = rhs.upper,
            /\ lhs.kind = "Loaded" /\ rhs.kind = "Loaded"
            /\ \/ rhs.lower[1] <= lhs.lower[1] /\ lhs.lower[1] <= rhs.upper[1]
               \/ lhs.lower[1] <= rhs.lower[1] /\ rhs.lower[1] <= lhs.upper[1])

\* !x of a range of booleans
not(x) == IF x.kind = "Missing" THEN Missing ELSE Loaded(<<~x.upper[1]>>, <<~x.lower[1]>>)

not_equal(lhs, rhs) == not(equal(lhs, rhs))

lt(lhs, rhs) ==
    Compare(lhs, rhs,
            lhs.kind = "Loaded" /\ rhs.kind = "Loaded" /\ lhs.upper[1] < rhs.lower[1],
            lhs.kind = "Loaded" /\ rhs.kind = "Loaded" /\ lhs.lower[1] < rhs.upper[1])

lte(lhs, rhs) ==
    Compare(lhs, rhs,
            lhs.kind = "Loaded" /\ rhs.kind = "Loaded" /\ lhs.upper[1] <= rhs.lower[1],
            lhs.kind = "Loaded" /\ rhs.kind = "Loaded" /\ lhs.lower[1] <= rhs.upper[1])

gt(lhs, rhs) == lt(rhs, lhs)

gte(lhs, rhs) == lte(rhs, lhs)

\* ColumnRangeStatistics::to_truth_value
to_truth_value(x) ==
    CASE x.kind = "Missing" -> "Maybe"
      [] x.lower[1] /\ x.upper[1] -> "True"
      [] ~x.lower[1] /\ ~x.upper[1] -> "False"
      [] OTHER -> "Maybe"

\* Expr: every expression has the same fields; args holds the operands.
Expr(kind, op, name, lit, args) ==
    [kind |-> kind, op |-> op, name |-> name, lit |-> lit, args |-> args]

resolved_col(name) == Expr("Column", "", name, 0, <<>>)

lit(value) == Expr("Literal", "", "", value, <<>>)

BinaryOp(op, left, right) == Expr("BinaryOp", op, "", 0, <<left, right>>)

Alias(e, name) == Expr("Alias", "", name, 0, <<e>>)

\* crate::Result<ColumnRangeStatistics>
EvalOk(stats) == [kind |-> "Ok", err |-> "", stats |-> stats]

EvalErr(err) == [kind |-> "Err", err |-> err, stats |-> Missing]

RECURSIVE eval_expression(_, _)

\* An eval_expression that sends == to not_equal.
eval_expression_EqAsNotEq(self, expr) ==
    CASE expr.kind = "Alias" -> eval_expression(self, expr.args[1])
      [] expr.kind = "Column" ->
            LET col == IndexMapGet(self.columns, expr.name)
            IN  IF col = <<>> THEN EvalErr("FieldNotFound") ELSE EvalOk(col[1])
      [] expr.kind = "Literal" -> EvalOk(Loaded(<<expr.lit>>, <<expr.lit>>))
      [] expr.kind = "BinaryOp" ->
            LET lhs == eval_expression(self, expr.args[1])
                rhs == eval_expression(self, expr.args[2])
            IN  IF lhs.kind = "Err" THEN lhs
                ELSE IF rhs.kind = "Err" THEN rhs
                ELSE EvalOk(CASE expr.op = "Lt" -> lt(lhs.stats, rhs.stats)
                              [] expr.op = "LtEq" -> lte(lhs.stats, rhs.stats)
                              [] expr.op = "Eq" -> not_equal(lhs.stats, rhs.stats)
                              [] expr.op = "NotEq" -> not_equal(lhs.stats, rhs.stats)
                              [] expr.op = "GtEq" -> gte(lhs.stats, rhs.stats)
                              [] expr.op = "Gt" -> gt(lhs.stats, rhs.stats)
                              [] OTHER -> Missing)
      [] OTHER -> EvalOk(Missing)

\* TableStatistics::eval_expression, over aliases, columns, literals and
\* comparisons; any other operator or expression has no range.
eval_expression(self, expr) ==
    CASE expr.kind = "Alias" -> eval_expression(self, expr.args[1])
      [] expr.kind = "Column" ->
            LET col == IndexMapGet(self.columns, expr.name)
            IN  IF col = <<>> THEN EvalErr("FieldNotFound") ELSE EvalOk(col[1])
      [] expr.kind = "Literal" -> EvalOk(Loaded(<<expr.lit>>, <<expr.lit>>))
      [] expr.kind = "BinaryOp" ->
            LET lhs == eval_expression(self, expr.args[1])
                rhs == eval_expression(self, expr.args[2])
            IN  IF lhs.kind = "Err" THEN lhs
                ELSE IF rhs.kind = "Err" THEN rhs
                ELSE EvalOk(CASE expr.op = "Lt" -> lt(lhs.stats, rhs.stats)
                              [] expr.op = "LtEq" -> lte(lhs.stats, rhs.stats)
                              [] expr.op = "Eq" -> equal(lhs.stats, rhs.stats)
                              [] expr.op = "NotEq" -> not_equal(lhs.stats, rhs.stats)
                              [] expr.op = "GtEq" -> gte(lhs.stats, rhs.stats)
                              [] expr.op = "Gt" -> gt(lhs.stats, rhs.stats)
                              [] OTHER -> Missing)
      [] OTHER -> EvalOk(Missing)

(* ------------------------------------------------------------------ *)
(* Tables and expressions                                              *)
(* ------------------------------------------------------------------ *)
ColumnNames == <<"a", "b">>

CellValues == 1..3

Literals == 0..4

Tables ==
    UNION { { RecordBatch(SubSeq(ColumnNames, 1, n), series) :
                 series \in [1..n -> [1..rows -> CellValues]] } :
              n \in 1..Len(ColumnNames), rows \in 0..MaxTableRows }

ComparisonOps == {"Lt", "LtEq", "Eq", "NotEq", "GtEq", "Gt"}

Exprs ==
    { BinaryOp("Eq", resolved_col(n), lit(c)) : n \in {"a", "b", "z"}, c \in Literals }
        \cup { BinaryOp("Eq", lit(c), resolved_col("a")) : c \in Literals }
        \cup { BinaryOp(op, resolved_col("a"), lit(2)) : op \in ComparisonOps \cup {"Modulus"} }
        \cup { Alias(BinaryOp("Eq", resolved_col("a"), lit(c)), "x") : c \in Literals }
        \cup { resolved_col("a"), resolved_col("z"), lit(2),
               Expr("IsNull", "", "", 0, <<resolved_col("a")>>) }

(* ------------------------------------------------------------------ *)
(* The state machine of the statistics                                 *)
(* ------------------------------------------------------------------ *)
\* A table, and the constructor it is given to: from_table gets tables of
\* data (built from non-empty columns), from_stats_table any table.
StatsInit ==
    /\ nested_idle
    /\ stream_idle
    /\ py_idle
    /\ get_idle
    /\ collect_idle
    /\ scan_idle
    /\ stats_pc = "table"
    /\ stats_table \in Tables
    /\ stats_from \in {"from_table", "from_stats_table"}
    /\ stats_from = "from_table" => TableLen(stats_table) >= 1
    /\ table_stats = <<>>
    /\ stats_expr = <<>>
    /\ stats_result = <<>>

FromTable ==
    /\ stats_pc = "table"
    /\ stats_from = "from_table"
    /\ table_stats' = from_table(stats_table)
    /\ stats_pc' = "built"
    /\ UNCHANGED <<stats_table, stats_from, stats_expr, stats_result, nested_vars, stream_vars, py_vars, get_vars, collect_vars, scan_vars>>

FromStatsTable ==
    /\ stats_pc = "table"
    /\ stats_from = "from_stats_table"
    /\ table_stats' = from_stats_table(stats_table)
    /\ stats_pc' = IF table_stats'.kind = "Ok" THEN "built" ELSE "failed"
    /\ UNCHANGED <<stats_table, stats_from, stats_expr, stats_result, nested_vars, stream_vars, py_vars, get_vars, collect_vars, scan_vars>>

EvalExpression ==
    /\ stats_pc = "built"
    /\ \E e \in Exprs :
          /\ stats_expr' = e
          /\ stats_result' = eval_expression(table_stats, e)
    /\ stats_pc' = "evaluated"
    /\ UNCHANGED <<stats_table, stats_from, table_stats, nested_vars, stream_vars, py_vars, get_vars, collect_vars, scan_vars>>

StatsNext == FromTable \/ FromStatsTable \/ EvalExpression

SpecStats == StatsInit /\ [][StatsNext]_vars

(* ------------------------------------------------------------------ *)
(* C17: col == literal against the range of the column                 *)
(* ------------------------------------------------------------------ *)
\* The expression evaluated is col == literal over a column of the table.
IsColEqLit ==
    /\ stats_expr.kind = "BinaryOp"
    /\ stats_expr.op = "Eq"
    /\ stats_expr.args[1].kind = "Column"
    /\ stats_expr.args[2].kind = "Literal"
    /\ \E i \in 1..Len(stats_table.names) : stats_table.names[i] = stats_expr.args[1].name

\* C17: on statistics built by from_table from a column with minimum m and
\* maximum M, col == c evaluates to False if c lies outside [m, M], to True
\* if m = M = c, and to Maybe if c lies in [m, M] and m # M.
C17_EqualTruthValue ==
    (stats_pc = "evaluated" /\ stats_from = "from_table" /\ IsColEqLit) =>
        LET col == get_column(stats_table, stats_expr.args[1].name)
            vals == { col[i] : i \in 1..Len(col) }
            m == CHOOSE x \in vals : \A y \in vals : x <= y
            M == CHOOSE x \in vals : \A y \in vals : x >= y
            c == stats_expr.args[2].lit
        IN  /\ stats_result.kind = "Ok"
            /\ to_truth_value(stats_result.stats) =
                   CASE c < m \/ c > M -> "False"
                     [] m = M -> "True"
                     [] OTHER -> "Maybe"

\* A literal strictly between the minimum and the maximum of the column,
\* and not a value of the column, was compared.
C17_Witness ==
    /\ stats_pc = "evaluated"
    /\ stats_from = "from_table"
    /\ IsColEqLit
    /\ stats_expr.args[2].lit = 2
    /\ LET col == get_column(stats_table, stats_expr.args[1].name)
       IN  /\ \A i \in 1..Len(col) : col[i] # 2
           /\ \E i, j \in 1..Len(col) : col[i] = 1 /\ col[j] = 3
    /\ to_truth_value(stats_result.stats) = "Maybe"

(* ------------------------------------------------------------------ *)
(* C18: from_stats_table                                               *)
(* ------------------------------------------------------------------ *)
\* C18: from_stats_table returns a ValueError for a table that does not
\* have exactly 2 rows; for a table of 2 rows it returns one entry per
\* column, in column order, with row 0 as the lower and row 1 as the upper
\* bound.
C18_FromStatsTable ==
    (stats_from = "from_stats_table" /\ stats_pc # "table") =>
        IF TableLen(stats_table) # 2
        THEN table_stats = StatsErr("ValueError")
        ELSE /\ table_stats.kind = "Ok"
             /\ Len(table_stats.columns) = Len(stats_table.names)
             /\ \A i \in 1..Len(stats_table.names) :
                   /\ table_stats.columns[i].name = stats_table.names[i]
                   /\ table_stats.columns[i].stats.kind = "Loaded"
                   /\ table_stats.columns[i].stats.lower = <<stats_table.series[i][1]>>
                   /\ table_stats.columns[i].stats.upper = <<stats_table.series[i][2]>>

\* A table of two columns and two rows, row 0 above row 1 in the first
\* column, was turned into statistics.
C18_Witness ==
    /\ stats_from = "from_stats_table"
    /\ stats_pc = "built"
    /\ Len(stats_table.names) = 2
    /\ stats_table.series[1] = <<3, 1>>
    /\ table_stats.columns[1].stats = Loaded(<<3>>, <<1>>)

(* ================================================================== *)
(* The collect node: daft-distributed pipeline_node/collect.rs         *)
(* ================================================================== *)
MaxPlans == 3
MaxChildren == 3
MaxPsets == 3

\* What CollectNode::new does with its arguments: the node, or the panic
\* of the first assertion that fails.
Constructed(plans, nodes, psets) ==
    [kind |-> "Self", local_physical_plans |-> plans, children |-> nodes,
     input_psets |-> psets]

AssertFailed(what) ==
    [kind |-> "Panic", local_physical_plans |-> <<>>, children |-> <<>>,
     input_psets |-> <<>>, assertion |-> what]

\* CollectNode::new
CollectNode_new(plans, nodes, psets) ==
    IF ~(plans # <<>>)
    THEN AssertFailed("!local_physical_plans.is_empty()")
    ELSE IF nodes # <<>> /\ ~(psets = <<>>)
    THEN AssertFailed("input_psets.is_empty()")
    ELSE IF nodes # <<>> /\ ~(Len(plans) = 1)
    THEN AssertFailed("local_physical_plans.len() == 1")
    ELSE Constructed(plans, nodes, psets)

\* The arguments CollectNode::new is called with.
CollectInit ==
    /\ nested_idle
    /\ stream_idle
    /\ py_idle
    /\ get_idle
    /\ stats_idle
    /\ scan_idle
    /\ collect_pc = "args"
    /\ local_physical_plans \in { [i \in 1..n |-> i] : n \in 0..MaxPlans }
    /\ children \in { [i \in 1..n |-> i] : n \in 0..MaxChildren }
    /\ input_psets \in { [i \in 1..n |-> i] : n \in 0..MaxPsets }
    /\ execution_loop = <<>>

New ==
    /\ collect_pc = "args"
    /\ LET r == CollectNode_new(local_physical_plans, children, input_psets)
       IN  collect_pc' = IF r.kind = "Self" THEN "constructed" ELSE "panicked"
    /\ UNCHANGED <<local_physical_plans, children, input_psets, execution_loop,
                   nested_vars, stream_vars, py_vars, get_vars, stats_vars, scan_vars>>

\* CollectNode::start: the last child, if any, becomes the input node (and
\* must have been the only one); the plans and the psets move into the
\* execution loop.
Start ==
    /\ collect_pc = "constructed"
    /\ IF children # <<>> /\ Front(children) # <<>>
       THEN /\ collect_pc' = "panicked"
            /\ children' = Front(children)
            /\ UNCHANGED <<local_physical_plans, input_psets, execution_loop>>
       ELSE /\ collect_pc' = "started"
            /\ children' = <<>>
            /\ execution_loop' = << [local_physical_plans |-> local_physical_plans,
                                     psets |-> input_psets,
                                     input_node |-> children] >>
            /\ local_physical_plans' = <<>>
            /\ input_psets' = <<>>
    /\ UNCHANGED <<nested_vars, stream_vars, py_vars, get_vars, stats_vars, scan_vars>>

\* The spawned execution loop runs: todo!().
ExecutionLoop ==
    /\ collect_pc = "started"
    /\ collect_pc' = "panicked"
    /\ UNCHANGED <<local_physical_plans, children, input_psets, execution_loop,
                   nested_vars, stream_vars, py_vars, get_vars, stats_vars, scan_vars>>

CollectNext == New \/ Start \/ ExecutionLoop

SpecCollect == CollectInit /\ [][CollectNext]_vars

(* ------------------------------------------------------------------ *)
(* C19: what CollectNode::new requires                                 *)
(* ------------------------------------------------------------------ *)
\* C19: CollectNode::new panics on an empty list of local physical plans,
\* and for a node with children it requires that input psets are present
\* and that there is exactly one local physical plan.
C19_NewRequires ==
    [][New =>
        (collect_pc' = "constructed") <=>
            /\ local_physical_plans # <<>>
            /\ children # <<>> => (input_psets # <<>> /\ Len(local_physical_plans) = 1)
      ]_vars

(* ================================================================== *)
(* The scan task source: daft-local-execution sources/scan_task.rs     *)
(* ================================================================== *)
MAX_PARALLEL_SCAN_TASKS == 8

MaxTasks == 9
MaxLimit == 4

\* The estimates approx_num_rows gives: None, or Some of a row count.
Estimates == {<<>>, <<0>>, <<2>>}

\* Iterator::take(n)
Take(seq, n) == SubSeq(seq, 1, Min(n, Len(seq)))

\* The for loop of the Some(limit) arm over the tasks taken, from the i-th
\* on: a task with an estimate is counted and ends the loop once the
\* remaining rows are used up; a task without one is counted.
RECURSIVE LimitLoop(_, _, _, _)
LimitLoop(taken, i, count, remaining_rows) ==
    IF i > Len(taken) THEN count
    ELSE IF taken[i] # <<>>
         THEN IF remaining_rows - taken[i][1] <= 0
              THEN count + 1
              ELSE LimitLoop(taken, i + 1, count + 1, remaining_rows - taken[i][1])
         ELSE LimitLoop(taken, i + 1, count + 1, remaining_rows)

\* A loop that ends only once the estimates exceed the limit.
ScanTaskSource_new_StrictBreak(tasks, limit) ==
    LET RECURSIVE Loop(_, _, _)
        Loop(i, count, remaining_rows) ==
            IF i > Len(Take(tasks, MAX_PARALLEL_SCAN_TASKS)) THEN count
            ELSE IF tasks[i] # <<>>
                 THEN IF remaining_rows - tasks[i][1] < 0
                      THEN count + 1
                      ELSE Loop(i + 1, count + 1, remaining_rows - tasks[i][1])
                 ELSE Loop(i + 1, count + 1, remaining_rows)
        n == IF limit # <<>> THEN Loop(1, 0, limit[1]) ELSE MAX_PARALLEL_SCAN_TASKS
    IN  Min(n, Len(tasks))

\* ScanTaskSource::new: the value of num_parallel_tasks.
ScanTaskSource_new(tasks, limit) ==
    LET n == IF limit # <<>>
             THEN LimitLoop(Take(tasks, MAX_PARALLEL_SCAN_TASKS), 1, 0, limit[1])
             ELSE MAX_PARALLEL_SCAN_TASKS
    IN  Min(n, Len(tasks))

ScanInit ==
    /\ nested_idle
    /\ stream_idle
    /\ py_idle
    /\ get_idle
    /\ stats_idle
    /\ collect_idle
    /\ scan_pc = "args"
    /\ scan_tasks \in UNION { [1..n -> Estimates] : n \in 0..MaxTasks }
    /\ pushdowns_limit \in {<<>>} \cup { <<l>> : l \in 0..MaxLimit }
    /\ num_parallel_tasks = 0

ScanNew ==
    /\ scan_pc = "args"
    /\ num_parallel_tasks' = ScanTaskSource_new(scan_tasks, pushdowns_limit)
    /\ scan_pc' = "constructed"
    /\ UNCHANGED <<scan_tasks, pushdowns_limit, nested_vars, stream_vars, py_vars, get_vars, stats_vars,
                   collect_vars>>

ScanNext == ScanNew

SpecScan == ScanInit /\ [][ScanNext]_vars

(* ------------------------------------------------------------------ *)
(* C20: num_parallel_tasks                                             *)
(* ------------------------------------------------------------------ *)
\* The rows the first k tasks are estimated to hold; a task without an
\* estimate adds none.
EstimatedRows(k) ==
    SumSeq([i \in 1..k |-> IF scan_tasks[i] = <<>> THEN 0 ELSE scan_tasks[i][1]])

\* The tasks the loop looks at.
Examined == Min(MAX_PARALLEL_SCAN_TASKS, Len(scan_tasks))

\* C20 as stated: without a limit num_parallel_tasks is min(8, number of
\* tasks); with a limit L it is the length of the shortest (non-empty)
\* prefix of the first 8 tasks whose estimates sum to at least L, or min(8,
\* number of tasks) if there is none; it exceeds neither 8 nor the number of
\* tasks.
C20_ShortestPrefix ==
    scan_pc = "constructed" =>
        /\ num_parallel_tasks <= MAX_PARALLEL_SCAN_TASKS
        /\ num_parallel_tasks <= Len(scan_tasks)
        /\ pushdowns_limit = <<>> => num_parallel_tasks = Examined
        /\ pushdowns_limit # <<>> =>
              LET reach == { k \in 1..Examined : EstimatedRows(k) >= pushdowns_limit[1] }
              IN  IF reach = {} THEN num_parallel_tasks = Examined
                  ELSE num_parallel_tasks = CHOOSE k \in reach : \A j \in reach : k <= j

\* C20 amended: as stated, but the prefix ends in a task that has an
\* estimate.
C20_PrefixEndsInEstimate ==
    scan_pc = "constructed" =>
        /\ num_parallel_tasks <= MAX_PARALLEL_SCAN_TASKS
        /\ num_parallel_tasks <= Len(scan_tasks)
        /\ pushdowns_limit = <<>> => num_parallel_tasks = Examined
        /\ pushdowns_limit # <<>> =>
              LET reach == { k \in 1..Examined :
                                /\ scan_tasks[k] # <<>>
                                /\ EstimatedRows(k) >= pushdowns_limit[1] }
              IN  IF reach = {} THEN num_parallel_tasks = Examined
                  ELSE num_parallel_tasks = CHOOSE k \in reach : \A j \in reach : k <= j

\* Nine tasks, the limit reached at the fourth after a task without an
\* estimate.
C20_Witness ==
    /\ scan_pc = "constructed"
    /\ Len(scan_tasks) = 9
    /\ pushdowns_limit = <<4>>
    /\ scan_tasks[1] = <<2>>
    /\ scan_tasks[2] = <<>>
    /\ scan_tasks[3] = <<0>>
    /\ scan_tasks[4] = <<2>>
    /\ num_parallel_tasks = 4

(* ================================================================== *)
(* Streaming one scan task: stream_scan_task of sources/scan_task.rs   *)
(* ================================================================== *)
MaxSources == 2

\* A ScanTask: its sources (by path), the format of its files, the pushed
\* down columns and the keys of its partition spec's fill map (<<>> for
\* None, <<x>> for Some(x)).
ScanTask(sources, file_format_config, pushdown_columns, partition_spec) ==
    [sources |-> sources, file_format_config |-> file_format_config,
     pushdown_columns |-> pushdown_columns, partition_spec |-> partition_spec]

FileFormatConfigs == {"Parquet", "Csv", "Json", "Warc", "Database", "PythonFunction"}

\* The result of the call: Ok(stream over the reader's tables) or Err(e).
StreamOk(reader) == [kind |-> "Ok", error |-> "", stream |-> reader]

StreamErr(error) == [kind |-> "Err", error |-> error, stream |-> ""]

\* One step the call takes in the I/O layer.
Effect(op, url, include_columns) ==
    [op |-> op, url |-> url, include_columns |-> include_columns]

\* file_column_names: the pushed down columns, without the columns the
\* partition spec fills in.
file_column_names(task) ==
    IF task.pushdown_columns = <<>> THEN <<>>
    ELSE IF task.partition_spec = <<>> THEN task.pushdown_columns
    ELSE << SelectSeq(task.pushdown_columns[1],
                      LAMBDA c : c \notin task.partition_spec[1]) >>

\* The reader each file format is streamed with, and the columns it is
\* asked for.
Reader(task) ==
    LET url == task.sources[1]
    IN  CASE task.file_format_config = "Parquet" ->
                Effect("stream_parquet", url, file_column_names(task))
          [] task.file_format_config = "Csv" ->
                Effect("stream_csv", url, file_column_names(task))
          [] task.file_format_config = "Json" ->
                Effect("stream_json", url, file_column_names(task))
          [] task.file_format_config = "Warc" ->
                Effect("stream_warc", url, <<>>)
          [] task.file_format_config = "Database" ->
                Effect("read_sql_into_py_table", "", task.pushdown_columns)
          [] OTHER ->
                Effect("read_pyfunc_into_table_iter", "", <<>>)

\* What follows the check of the sources: the I/O client, then the reader
\* of the file format; a failure of either is returned as it is.
OpenAndRead(task, io, effects) ==
    LET client == Append(effects, Effect("get_io_client", "", <<>>))
    IN  IF io.io_client = "Err"
        THEN [ret |-> StreamErr("External"), effects |-> client]
        ELSE IF io.read = "Err"
        THEN [ret |-> StreamErr("External"), effects |-> Append(client, Reader(task))]
        ELSE [ret |-> StreamOk(Reader(task).op), effects |-> Append(client, Reader(task))]

\* A stream_scan_task that creates the I/O client before it looks at the
\* sources.
stream_scan_task_ClientFirst(task, io) ==
    LET client == <<Effect("get_io_client", "", <<>>)>>
    IN  IF io.io_client = "Err"
        THEN [ret |-> StreamErr("External"), effects |-> client]
        ELSE IF Len(task.sources) # 1
        THEN [ret |-> StreamErr("TypeError"), effects |-> client]
        ELSE OpenAndRead(task, io, <<>>)

\* stream_scan_task: the column names, the check of the sources, the I/O
\* client, the reader.
stream_scan_task(task, io) ==
    IF Len(task.sources) # 1
    THEN [ret |-> StreamErr("TypeError"), effects |-> <<>>]
    ELSE OpenAndRead(task, io, <<>>)

StreamInit ==
    /\ nested_idle
    /\ get_idle
    /\ stats_idle
    /\ collect_idle
    /\ scan_idle
    /\ py_idle
    /\ stream_pc = "spawned"
    /\ \E n \in 0..MaxSources, f \in FileFormatConfigs,
          c \in {<<>>, << <<"a", "p">> >>}, ps \in {<<>>, << {"p"} >>} :
          scan_task = ScanTask([i \in 1..n |-> i], f, c, ps)
    /\ io_outcomes \in [io_client : {"Ok", "Err"}, read : {"Ok", "Err"}]
    /\ stream_ret = <<>>
    /\ stream_effects = <<>>

\* get_data spawns stream_scan_task on the task.
StreamScanTask ==
    /\ stream_pc = "spawned"
    /\ LET r == stream_scan_task(scan_task, io_outcomes)
       IN  /\ stream_ret' = r.ret
           /\ stream_effects' = r.effects
    /\ stream_pc' = "returned"
    /\ UNCHANGED <<scan_task, io_outcomes, nested_vars, get_vars, stats_vars,
                   collect_vars, scan_vars, py_vars>>

StreamNext == StreamScanTask

SpecStream == StreamInit /\ [][StreamNext]_vars

(* ------------------------------------------------------------------ *)
(* C21: a scan task of other than one source                           *)
(* ------------------------------------------------------------------ *)
\* C21: stream_scan_task returns a TypeError for every scan task whose
\* number of sources is not exactly 1 (0 included), and returns it before
\* it creates an I/O client or starts any file read.
C21_TypeErrorFirst ==
    (stream_pc = "returned" /\ Len(scan_task.sources) # 1) =>
        /\ stream_ret = StreamErr("TypeError")
        /\ stream_effects = <<>>

\* A parquet scan task of no source was refused, with an I/O layer that
\* would have answered.
C21_Witness ==
    /\ stream_pc = "returned"
    /\ scan_task.sources = <<>>
    /\ scan_task.file_format_config = "Parquet"
    /\ io_outcomes = [io_client |-> "Ok", read |-> "Ok"]
    /\ stream_ret = StreamErr("TypeError")
    /\ stream_effects = <<>>

(* ================================================================== *)
(* The Python face of a RecordBatch: daft-recordbatch python.rs        *)
(* ================================================================== *)
MaxArg == 2          \* signed arguments range over -MaxArg..MaxArg
MaxBatchRows == 2    \* rows of the wrapped RecordBatch

\* Err(PyValueError::new_err(format!(..))): the text and the numbers put
\* into it.
PyValueError(text, numbers) ==
    [kind |-> "Err", error |-> "ValueError", msg |-> <<text, numbers>>]

\* `x as usize` of an i64: x itself when it is not negative, else the
\* usize that lies -x - 1 below usize::MAX.
as_usize(x) == IF x >= 0 THEN x ELSE [below_usize_max |-> -x - 1]

\* `x as u64`, likewise.
as_u64(x) == IF x >= 0 THEN x ELSE [below_u64_max |-> -x - 1]

\* One operation of the wrapped RecordBatch, with its arguments.
Invoke(op, args) == [op |-> op, args |-> args]

\* A method that returns early, having invoked what it has so far.
Refuse(err, invoked) == [ret |-> err, invoked |-> invoked]

\* A method that hands over to an operation of the RecordBatch and returns
\* what that returns, converted.
Delegate(invoked, op, args) ==
    [ret |-> [kind |-> "Delegated", error |-> "", msg |-> <<op, args>>],
     invoked |-> Append(invoked, Invoke(op, args))]

\* PyRecordBatch::head
PyRecordBatch_head(self, num) ==
    IF num < 0
    THEN Refuse(PyValueError("Can not head Table with negative number: ", <<num>>), <<>>)
    ELSE Delegate(<<>>, "head", <<as_usize(num)>>)

\* PyRecordBatch::sample_by_size
PyRecordBatch_sample_by_size(self, size, with_replacement, seed) ==
    IF size < 0
    THEN Refuse(PyValueError("Can not sample table with negative size: ", <<size>>), <<>>)
    ELSE Delegate(<<>>, "sample", <<as_usize(size), with_replacement, seed>>)

\* PyRecordBatch::quantiles
PyRecordBatch_quantiles(self, num) ==
    IF num < 0
    THEN Refuse(PyValueError("Can not fetch quantile from table with negative number: ",
                             <<num>>), <<>>)
    ELSE Delegate(<<>>, "quantiles", <<as_usize(num)>>)

\* PyRecordBatch::partition_by_hash
PyRecordBatch_partition_by_hash(self, exprs, num_partitions) ==
    IF num_partitions < 0
    THEN Refuse(PyValueError("Can not partition into negative number of partitions: ",
                             <<num_partitions>>), <<>>)
    ELSE Delegate(<<>>, "partition_by_hash", <<exprs, as_usize(num_partitions)>>)

\* PyRecordBatch::partition_by_random
PyRecordBatch_partition_by_random(self, num_partitions, seed) ==
    IF num_partitions < 0
    THEN Refuse(PyValueError("Can not partition into negative number of partitions: ",
                             <<num_partitions>>), <<>>)
    ELSE IF seed < 0
    THEN Refuse(PyValueError("Can not have seed has negative number: ", <<seed>>), <<>>)
    ELSE Delegate(<<>>, "partition_by_random", <<as_usize(num_partitions), as_u64(seed)>>)

\* PyRecordBatch::get_column_by_index: the index is held against
\* record_batch.len().
PyRecordBatch_get_column_by_index(self, idx) ==
    IF idx < 0
    THEN Refuse(PyValueError("Invalid index, negative numbers not supported: ", <<idx>>),
                <<>>)
    ELSE IF as_usize(idx) >= TableLen(self)
    THEN Refuse(PyValueError("Invalid index, out of bounds: ",
                             <<as_usize(idx), TableLen(self)>>),
                <<Invoke("len", <<>>), Invoke("len", <<>>)>>)
    ELSE Delegate(<<Invoke("len", <<>>)>>, "get_column_by_index", <<as_usize(idx)>>)

\* A slice that refuses an empty range as well.
PyRecordBatch_slice_RefuseEmpty(self, start, end) ==
    IF start < 0
    THEN Refuse(PyValueError("slice start can not be negative: ", <<start>>), <<>>)
    ELSE IF end < 0
    THEN Refuse(PyValueError("slice end can not be negative: ", <<start>>), <<>>)
    ELSE IF start >= end
    THEN Refuse(PyValueError("slice length can not be negative: start: end: ",
                             <<start, end>>), <<>>)
    ELSE Delegate(<<>>, "slice", <<as_usize(start), as_usize(end)>>)

\* PyRecordBatch::slice (the message for a negative end prints start)
PyRecordBatch_slice(self, start, end) ==
    IF start < 0
    THEN Refuse(PyValueError("slice start can not be negative: ", <<start>>), <<>>)
    ELSE IF end < 0
    THEN Refuse(PyValueError("slice end can not be negative: ", <<start>>), <<>>)
    ELSE IF start > end
    THEN Refuse(PyValueError("slice length can not be negative: start: end: ",
                             <<start, end>>), <<>>)
    ELSE Delegate(<<>>, "slice", <<as_usize(start), as_usize(end)>>)

\* The values Python hands over for an i64 argument.
I64Args == -MaxArg..MaxArg

\* The method called, its signed arguments and its other arguments.
PyCall(method, signed, rest) == [method |-> method, signed |-> signed, rest |-> rest]

PyInit ==
    /\ nested_idle
    /\ get_idle
    /\ stats_idle
    /\ collect_idle
    /\ scan_idle
    /\ stream_idle
    /\ py_pc = "ready"
    /\ \E rows \in 0..MaxBatchRows :
          record_batch = RecordBatch(<<"a">>, << [i \in 1..rows |-> 1] >>)
    /\ py_call = <<>>
    /\ py_ret = <<>>
    /\ py_invoked = <<>>

\* Python calls a method; r is what the method does.
PyReturn(call, r) ==
    /\ py_pc = "ready"
    /\ py_call' = call
    /\ py_ret' = r.ret
    /\ py_invoked' = r.invoked
    /\ py_pc' = "returned"
    /\ UNCHANGED <<record_batch, nested_vars, get_vars, stats_vars, collect_vars,
                   scan_vars, stream_vars>>

PyHead ==
    \E num \in I64Args :
        PyReturn(PyCall("head", <<num>>, <<>>), PyRecordBatch_head(record_batch, num))

PySampleBySize ==
    \E size \in I64Args, with_replacement \in BOOLEAN, seed \in {<<>>, <<1>>} :
        PyReturn(PyCall("sample_by_size", <<size>>, <<with_replacement, seed>>),
                 PyRecordBatch_sample_by_size(record_batch, size, with_replacement, seed))

PyQuantiles ==
    \E num \in I64Args :
        PyReturn(PyCall("quantiles", <<num>>, <<>>),
                 PyRecordBatch_quantiles(record_batch, num))

PyPartitionByHash ==
    \E num_partitions \in I64Args :
        PyReturn(PyCall("partition_by_hash", <<num_partitions>>, << <<"a">> >>),
                 PyRecordBatch_partition_by_hash(record_batch, <<"a">>, num_partitions))

PyPartitionByRandom ==
    \E num_partitions \in I64Args, seed \in I64Args :
        PyReturn(PyCall("partition_by_random", <<num_partitions, seed>>, <<>>),
                 PyRecordBatch_partition_by_random(record_batch, num_partitions, seed))

PyGetColumnByIndex ==
    \E idx \in I64Args :
        PyReturn(PyCall("get_column_by_index", <<idx>>, <<>>),
                 PyRecordBatch_get_column_by_index(record_batch, idx))

PySlice ==
    \E start \in I64Args, end \in I64Args :
        PyReturn(PyCall("slice", <<start, end>>, <<>>),
                 PyRecordBatch_slice(record_batch, start, end))

PyNext ==
    \/ PyHead
    \/ PySampleBySize
    \/ PyQuantiles
    \/ PyPartitionByHash
    \/ PyPartitionByRandom
    \/ PyGetColumnByIndex
    \/ PySlice

SpecPy == PyInit /\ [][PyNext]_vars

(* ------------------------------------------------------------------ *)
(* C22: negative arguments                                             *)
(* ------------------------------------------------------------------ *)
\* The call was refused with a ValueError before any operation of the
\* RecordBatch was invoked.
RefusedUninvoked ==
    /\ py_ret.kind = "Err"
    /\ py_ret.error = "ValueError"
    /\ py_invoked = <<>>

\* C22: head, sample_by_size, quantiles, partition_by_hash,
\* partition_by_random, get_column_by_index and slice return a ValueError
\* when any of their signed arguments is negative, without invoking the
\* operation of the RecordBatch; slice also returns a ValueError when
\* start > end, and accepts start = end.
C22_NegativeRefused ==
    py_pc = "returned" =>
        /\ (\E i \in 1..Len(py_call.signed) : py_call.signed[i] < 0) => RefusedUninvoked
        /\ py_call.method = "slice" =>
              LET start == py_call.signed[1]
                  end == py_call.signed[2]
              IN  /\ start > end => RefusedUninvoked
                  /\ (start = end /\ start >= 0) =>
                        /\ py_ret.kind = "Delegated"
                        /\ py_invoked = <<Invoke("slice", <<start, end>>)>>

\* partition_by_random was refused for a negative seed alone.
C22_Witness ==
    /\ py_pc = "returned"
    /\ py_call.method = "partition_by_random"
    /\ py_call.signed = <<1, -1>>
    /\ RefusedUninvoked
    /\ py_ret.msg = <<"Can not have seed has negative number: ", <<-1>> >>

(* ================================================================== *)
(* Nested parquet decoding, continued                                  *)
(* ================================================================== *)
(* ------------------------------------------------------------------ *)
(* C23: the three vectors stay aligned                                 *)
(* ------------------------------------------------------------------ *)
\* The leaf decoders of the returned sequence that read a column.
DecodersOf(column) == { it \in Iters : it.node = "leaf" /\ it.column = column }

\* The calls on a leaf arm that were handed a column.
LeafCallsOf(column) ==
    { c \in Calls : /\ IsLeafArm(c)
                    /\ \E k \in 1..Len(c.columns) : c.columns[k] = column }

\* C23: a top-level call is given columns, types and num_values of equal
\* length n_columns(field). Then at every call made the three vectors have
\* the length n_columns of the field dispatched; at every leaf arm each
\* holds exactly one entry, and the arm pops no more than that; no call
\* panics; and every leaf column is consumed by exactly one leaf decoder:
\* no column is handed to two leaf arms, and every column of a dispatch
\* that returns a sequence is read by one decoder of it.
C23_VectorsAligned ==
    (/\ pc # "start"
     /\ Len(columns) = n_columns(field.data_type)
     /\ Len(types) = Len(columns)
     /\ Len(num_values) = Len(columns)) =>
        /\ \A c \in Calls :
              /\ Len(c.columns) = n_columns(c.field.data_type)
              /\ Len(c.types) = Len(c.columns)
              /\ Len(c.num_values) = Len(c.columns)
              /\ c.kind # "Panic"
              /\ IsLeafArm(c) =>
                    /\ Len(c.columns) = 1
                    /\ c.popped.columns <= 1
                    /\ c.popped.types <= 1
                    /\ c.popped.num_values <= 1
        /\ result.kind # "Panic"
        /\ \A i \in 1..Len(columns) :
              /\ Cardinality(LeafCallsOf(columns[i])) <= 1
              /\ result.kind = "Ok" => Cardinality(DecodersOf(columns[i])) = 1

\* A struct of three fields over four columns, the middle field a struct
\* of two, was dispatched into four decoders.
C23_Witness ==
    /\ pc = "decoding"
    /\ field.data_type.tag = "Struct"
    /\ Len(field.data_type.children) = 3
    /\ field.data_type.children[2].data_type.tag = "Struct"
    /\ Len(columns) = 4
    /\ \A i \in 1..4 : Cardinality(DecodersOf(columns[i])) = 1
    /\ \A i \in 1..4 : \E c \in LeafCallsOf(columns[i]) : c.popped.columns = 1

(* ------------------------------------------------------------------ *)
(* C24: the value casts of the dictionary leaf                         *)
(* ------------------------------------------------------------------ *)
\* The Rust integer type the values of a dictionary value type are held in.
NativeOf ==
    [UInt8 |-> "u8", UInt16 |-> "u16", UInt32 |-> "u32", Int8 |-> "i8",
     Int16 |-> "i16", Int32 |-> "i32", Date32 |-> "i32", Time32 |-> "i32",
     IntervalYearMonth |-> "i32", Int64 |-> "i64", Date64 |-> "i64",
     Time64 |-> "i64", Duration |-> "i64"]

\* An integer value extended to nine bytes, with its sign: two values are
\* the same number exactly if their extensions are the same bytes.
Widen(v) ==
    [i \in 1..(9 - Len(v.bytes)) |-> IF IsNegative(v) THEN 255 ELSE 0] \o v.bytes

NumEq(x, y) == Widen(x) = Widen(y)

\* x is a number of the integer type ty.
Representable(x, ty) == NumEq(x, AsCast(x, ty))

\* The dictionary decoders of the returned sequence.
DictIters == { it \in Iters : it.node = "leaf" /\ it.data_type.tag = "Dictionary" }

\* The physical value behind the i-th value of the item of the last pull.
PhysicalOf(it, i) ==
    Stored(it.column, it.n, (pulls - 1) * ChunkRows(it.num_rows, it.chunk_size, 1) + i)

\* C24: the value cast dict_read picks for a supported dictionary value
\* type maps every physical value to a value of the value type's own
\* width, numerically equal to it whenever it is representable (a value
\* type that is no integer keeps the value as it is); for Int64, Date64,
\* Time64 and Duration the cast keeps all 64 bits.
C24_DictCastsExact ==
    Pulled =>
        \A it \in DictIters :
            LET decodedValues == NestedIterNext(it, pulls).array.values
                v == it.data_type.value
            IN  \A i \in 1..Len(decodedValues) :
                    LET x == PhysicalOf(it, i)
                        y == decodedValues[i]
                    IN  IF v \in DOMAIN NativeOf
                        THEN /\ y.ty = NativeOf[v]
                             /\ Len(y.bytes) = IntBytes[NativeOf[v]]
                             /\ Representable(x, NativeOf[v]) => NumEq(x, y)
                             /\ v \in {"Int64", "Date64", "Time64", "Duration"} =>
                                   y.bytes = x.bytes
                        ELSE y = x

====
